---- MODULE Spec2Model ----
(***************************************************************************)
(* A model of the soia python client runtime.                              *)
(*                                                                         *)
(*  Part I   the module initializer (soialib/module_initializer.py) and    *)
(*           the finalization of record adapters (soialib/impl/enums.py,   *)
(*           arrays.py, optionals.py, primitives.py): specification Spec.  *)
(*  Part II  the binary wire codec (soia/_impl/binary.py and the integer   *)
(*           encoders of soia/_impl/primitives.py): specification          *)
(*           SpecCodec.                                                    *)
(***************************************************************************)
EXTENDS Integers, Sequences, FiniteSets, TLC

VARIABLES
    schema,                 \* record id -> the types of its spec's value_fields
    record_id_to_adapter,   \* the registry: record id -> its record adapter
    array_adapters,         \* the array adapters held by _item_to_array_adapters
    optional_adapters,      \* the optional adapters held by _other_adapter_to_optional_adapter
    pc,                     \* position of the running init_module call, "idle" between calls
    records,                \* init_module's records argument (record ids)
    idx,                    \* index of the running for loop of init_module
    module_adapters,        \* init_module's local list
    stack,                  \* the active finalize calls, innermost first
    globals,                \* init_module's globals argument
    methods,                \* init_module's methods argument (request, response types)
    constants,              \* init_module's constants argument (types)
    result,                 \* how the last init_module call ended
    missing,                \* the key of the KeyError that ended it, if any
    c_pc,                   \* codec: "idle", then "written" (stream ready), then "read"
    c_op,                   \* codec: the call made: "encode", "token", "length", "unused"
    c_in,                   \* codec: the integer encoded or carried, or the token skipped
    c_target,               \* codec: the target type of the decoder
    c_stream,               \* codec: the bytes of the stream (or the buffer written)
    c_pos,                  \* codec: stream.position (0-based)
    c_out,                  \* codec: the value returned
    c_err,                  \* codec: the exception raised, "" if none
    k_threads,              \* keyed array: the threads that call find on it
    k_items,                \* keyed array: the key of each element, in order
    k_key_to_item,          \* keyed array: the attribute _key_to_item
    k_builds,               \* keyed array: how many maps key_items has built
    k_pc,                   \* per thread: the line of find it is at, "idle" outside
    k_call,                 \* per thread: the method called and its key argument
    k_local,                \* per thread: the local key_to_item of find
    k_ret,                  \* per thread: what its last call returned
    a_heap,                 \* arrays: the instances of the listuple class, by identity
    a_op,                   \* arrays: the operation that last produced an array
    a_value,                \* arrays: the identity of the array it produced, 0 if it raised
    a_err,                  \* arrays: the exception it raised, "" if none
    g_item_to_array_adapters,\* caches: _item_to_array_adapters, item adapter -> key attributes -> array adapter
    g_other_to_optional,    \* caches: _other_adapter_to_optional_adapter, inner adapter -> optional adapter
    g_constructed,          \* caches: how many adapters exist; an adapter is known by its serial number
    g_calls,                \* caches: the calls made so far, with what each constructed and returned
    f_objects,              \* frozen objects: the attributes of each object
    f_op,                   \* frozen objects: the operation last attempted
    f_target,               \* frozen objects: the object and attribute it was attempted on
    f_err,                  \* frozen objects: the exception it raised, "" if none
    f_raised,               \* frozen objects: the attempts that raised FrozenInstanceError so far
    e_pc,                   \* enums: "idle", "encoded" (JSON at hand), "decoded", "reencoded" or "compared"
    e_op,                   \* enums: how the JSON at hand was made: "to_json" or "given"
    e_enum,                 \* enums: the enum record in use
    e_x,                    \* enums: the value handed to to_json, or the left side of ==
    e_readable,             \* enums: the readable flag of to_json
    e_json,                 \* enums: the JSON at hand
    e_back,                 \* enums: what from_json did with it
    e_again,                \* enums: the dense JSON of the decoded value
    e_other,                \* enums: the right side of ==
    e_eq,                   \* enums: the result of ==
    s_pc,                   \* structs: "idle", "made" (a frozen value at hand) or "encoded"
    s_op,                   \* structs: how the value at hand was made: "new" or "from_json"
    s_struct,               \* structs: the struct record in use
    s_given,                \* structs: the JSON handed to from_json
    s_value,                \* structs: the frozen value at hand
    s_copied,               \* structs: whether it went through to_mutable().to_frozen()
    s_json                  \* structs: its dense JSON

initVars == <<schema, record_id_to_adapter, array_adapters,
              optional_adapters, pc, records, idx, module_adapters, stack,
              globals, methods, constants, result, missing>>
codecVars == <<c_pc, c_op, c_in, c_target, c_stream, c_pos, c_out, c_err>>
keyedVars == <<k_threads, k_items, k_key_to_item, k_builds, k_pc, k_call,
               k_local, k_ret>>
arrayVars == <<a_heap, a_op, a_value, a_err>>
cacheVars == <<g_item_to_array_adapters, g_other_to_optional, g_constructed, g_calls>>
frozenVars == <<f_objects, f_op, f_target, f_err, f_raised>>
enumVars == <<e_pc, e_op, e_enum, e_x, e_readable, e_json, e_back, e_again, e_other, e_eq>>
structVars == <<s_pc, s_op, s_struct, s_given, s_value, s_copied, s_json>>
vars == <<initVars, codecVars, keyedVars, arrayVars, cacheVars, frozenVars, enumVars, structVars>>

\* The variables of the other parts.
nonInitVars == <<codecVars, keyedVars, arrayVars, cacheVars, frozenVars, enumVars, structVars>>
nonCodecVars == <<initVars, keyedVars, arrayVars, cacheVars, frozenVars, enumVars, structVars>>
nonKeyedVars == <<initVars, codecVars, arrayVars, cacheVars, frozenVars, enumVars, structVars>>
nonArrayVars == <<initVars, codecVars, keyedVars, cacheVars, frozenVars, enumVars, structVars>>
nonCacheVars == <<initVars, codecVars, keyedVars, arrayVars, frozenVars, enumVars, structVars>>
nonFrozenVars == <<initVars, codecVars, keyedVars, arrayVars, cacheVars, enumVars, structVars>>
nonEnumVars == <<initVars, codecVars, keyedVars, arrayVars, cacheVars, frozenVars, structVars>>
nonStructVars == <<initVars, codecVars, keyedVars, arrayVars, cacheVars, frozenVars, enumVars>>

(***************************************************************************)
(* Part I: schema terms                                                    *)
(***************************************************************************)

\* Bound: the length of the records tuple handed to init_module.
MaxRecords == 2

\* The record ids of the schemas: two top-level records and one nested in "A".
RecordIds == {"A", "A.N", "B"}

\* A type term is a sequence of strings: "arr" (spec.ArrayType) and "opt"
\* (spec.OptionalType) wrappers around a base, which is "prim"
\* (a spec.PrimitiveType) or a record id.
Prim == <<"prim">>
ArrayType(item) == <<"arr">> \o item
OptionalType(other) == <<"opt">> \o other

\* The value_fields a record of the schema may declare.
\* Every record picks one, so the schemas hold self references through an
\* array, cycles through two and three records, and references to records
\* that a call may not have registered.
FieldChoices ==
    { <<>>,
      <<Prim, ArrayType(OptionalType(<<"A">>))>>,
      <<OptionalType(<<"B">>), <<"A.N">>>> }

\* The methods and constants tuples handed to init_module.
Method(request_type, response_type) ==
    [name |-> "Rpc", request_type |-> request_type, response_type |-> response_type]
Constant(type) == [name |-> "K", type |-> type]
MethodChoices == {<<>>, <<Method(<<"A">>, OptionalType(<<"B">>))>>}
ConstantChoices == {<<>>, <<Constant(ArrayType(<<"A.N">>))>>}

\* spec.RecordId.parse(id).parent: the portion before the last "." (if any).
Parent(id) == IF id = "A.N" THEN "A" ELSE ""

\* spec.class_name: the local name of the record.
ClassName(id) == IF id = "A.N" THEN "N" ELSE id

RECURSIVE SeqsUpTo(_, _)
SeqsUpTo(S, n) ==
    IF n = 0 THEN {<<>>}
    ELSE LET shorter == SeqsUpTo(S, n - 1)
         IN shorter \cup {Append(s, x) : s \in {t \in shorter : Len(t) = n - 1}, x \in S}

Range(s) == {s[i] : i \in 1..Len(s)}

(***************************************************************************)
(* Part I: adapters                                                        *)
(***************************************************************************)

\* A type adapter: the wrappers (array/optional adapters, outermost first)
\* around the record adapter of record id rec, or around a primitive adapter
\* (rec = "prim").
TypeAdapter(wrap, rec) == [wrap |-> wrap, rec |-> rec]

BaseOf(type) == type[Len(type)]
WrapOf(type) == SubSeq(type, 1, Len(type) - 1)

\* What a call returns: a value, or the exception it raises.
Returned(value) == [error |-> "", key |-> "", value |-> value]
Raised(error, key) == [error |-> error, key |-> key, value |-> TypeAdapter(<<>>, "prim")]

\* resolve_type as it would be with a lookup that does not raise
\* (record_id_to_adapter.get): a missing record id yields no adapter.
resolve_type_lenient(type) ==
    IF BaseOf(type) \in DOMAIN record_id_to_adapter
    THEN Returned(TypeAdapter(WrapOf(type), BaseOf(type)))
    ELSE Returned(TypeAdapter(WrapOf(type), "prim"))

\* resolve_type (module_initializer.py lines 22-51): the adapter of a type.
\* The wrappers are resolved inside out, so the record id is looked up first,
\* and record_id_to_adapter[type] raises KeyError on an id that is no key.
resolve_type(type) ==
    IF BaseOf(type) = "prim"
    THEN Returned(TypeAdapter(WrapOf(type), "prim"))
    ELSE IF BaseOf(type) \in DOMAIN record_id_to_adapter
    THEN Returned(TypeAdapter(WrapOf(type), BaseOf(type)))
    ELSE Raised("KeyError", BaseOf(type))

\* The array (kind "arr") or optional (kind "opt") adapters resolve_type asks
\* get_array_adapter / get_optional_adapter for while resolving type: none
\* when the record id is missing, as the lookup raises first.
Wrapped(type, kind) ==
    LET r == resolve_type(type)
        a == r.value
    IN IF r.error # "" THEN {}
       ELSE { TypeAdapter(SubSeq(a.wrap, i, Len(a.wrap)), a.rec) :
                i \in {j \in 1..Len(a.wrap) : a.wrap[j] = kind} }

\* get_array_adapter: setdefault keeps the adapter already in the cache.
get_array_adapter(type) == array_adapters \cup Wrapped(type, "arr")

\* get_optional_adapter: setdefault keeps the adapter already in the cache.
get_optional_adapter(type) == optional_adapters \cup Wrapped(type, "opt")

\* The finalization states (enums.py line 33).
Pending == 0
InProgress == 1
Done == 2

\* EnumAdapter.__init__
NewAdapter(id) ==
    [id |-> id,
     \* history: the how-manieth adapter constructed for this record id it is
     ordinal |-> IF id \in DOMAIN record_id_to_adapter
                 THEN record_id_to_adapter[id].ordinal + 1 ELSE 1,
     finalization_state |-> Pending,
     started |-> 0,          \* history: how often finalization_state was set to 1
     finished |-> 0,         \* history: how often finalization_state was set to 2
     wrap_fns |-> 0,         \* how often the wrap_<name> factories were set
     fj |-> 0,               \* how often the class's _fj was set
     attrs |-> {},           \* nested classes set on gen_class
     parent_class |-> "unset",   \* gen_class._parent_class
     serializer |-> FALSE]   \* gen_class.SERIALIZER is set

\* A finalize call: the adapter it runs on, its position, its loop index, and
\* the local value_fields (the resolved field types).
Frame(adapter, at) == [adapter |-> adapter, at |-> at, i |-> 1, value_fields |-> <<>>]

IsRecordAdapter(a) == a.wrap = <<>> /\ a.rec # "prim"

(***************************************************************************)
(* Part I: init_module                                                     *)
(***************************************************************************)

\* An exception leaves init_module: every active call is unwound.
Raise(kind, key) ==
    /\ pc' = "done"
    /\ result' = kind
    /\ missing' = key
    /\ stack' = <<>>

\* A call of init_module(records, methods, constants, globals, registry): the
\* registry is the one of the earlier calls, globals is a fresh dictionary.
CallInitModule ==
    /\ pc \in {"idle", "done"}
    /\ \E rs \in SeqsUpTo(RecordIds, MaxRecords) : records' = rs
    /\ pc' = "register"
    /\ idx' = 1
    /\ module_adapters' = <<>>
    /\ globals' = {}
    /\ methods' = <<>>
    /\ constants' = <<>>
    /\ result' = "none"
    /\ missing' = ""
    /\ stack' = <<>>
    /\ UNCHANGED <<schema, record_id_to_adapter, array_adapters,
                   optional_adapters, nonInitVars>>

\* Line 55 without the check: a record id is never taken as a duplicate.
DuplicateId_Unchecked(id) == FALSE

\* module_initializer.py line 55: the record's id is already a key.
DuplicateId(id) == id \in DOMAIN record_id_to_adapter

\* Lines 54-63 as they would be if a duplicate took the adapters the call has
\* registered out of the registry again.
RegisterRecord_RollsBack ==
    /\ pc = "register"
    /\ idx <= Len(records)
    /\ LET id == records[idx]
       IN IF DuplicateId(id)
          THEN /\ Raise("AssertionError", id)
               /\ record_id_to_adapter' =
                     [k \in DOMAIN record_id_to_adapter \ Range(module_adapters) |->
                        record_id_to_adapter[k]]
               /\ UNCHANGED <<module_adapters, idx>>
          ELSE /\ module_adapters' = Append(module_adapters, id)
               /\ record_id_to_adapter' =
                     [k \in DOMAIN record_id_to_adapter \cup {id} |->
                        IF k = id THEN NewAdapter(id) ELSE record_id_to_adapter[k]]
               /\ idx' = idx + 1
               /\ UNCHANGED <<pc, result, missing, stack>>
    /\ UNCHANGED <<schema, array_adapters, optional_adapters, records, globals,
                   methods, constants, nonInitVars>>

\* One iteration of the first loop of init_module (lines 54-63).
RegisterRecord ==
    /\ pc = "register"
    /\ idx <= Len(records)
    /\ LET id == records[idx]
       IN IF DuplicateId(id)
          THEN /\ Raise("AssertionError", id)
               /\ UNCHANGED <<record_id_to_adapter, module_adapters, idx>>
          ELSE /\ module_adapters' = Append(module_adapters, id)
               /\ record_id_to_adapter' =
                     [k \in DOMAIN record_id_to_adapter \cup {id} |->
                        IF k = id THEN NewAdapter(id) ELSE record_id_to_adapter[k]]
               /\ idx' = idx + 1
               /\ UNCHANGED <<pc, result, missing, stack>>
    /\ UNCHANGED <<schema, array_adapters, optional_adapters, records, globals,
                   methods, constants, nonInitVars>>

\* Line 64 reached early: finalization starts once one adapter exists.
AllCreated_AfterFirst == idx > 1

\* The first loop is over: every adapter of the module has been created
\* (line 64).
AllCreated == idx > Len(records)

StartFinalizing ==
    /\ pc = "register"
    /\ AllCreated
    /\ pc' = "finalize_loop"
    /\ idx' = 1
    /\ UNCHANGED <<schema, record_id_to_adapter, array_adapters,
                   optional_adapters, records, module_adapters, stack, globals,
                   methods, constants, result, missing, nonInitVars>>

\* Line 66: adapter.finalize(resolve_type) for the next adapter of the module.
FinalizeNext ==
    /\ pc = "finalize_loop"
    /\ idx <= Len(module_adapters)
    /\ stack' = <<Frame(TypeAdapter(<<>>, module_adapters[idx]), "entry")>>
    /\ pc' = "finalize"
    /\ UNCHANGED <<schema, record_id_to_adapter, array_adapters,
                   optional_adapters, records, idx, module_adapters, globals,
                   methods, constants, result, missing, nonInitVars>>

\* A finalize call returns: to its caller's frame, or to init_module.
Return ==
    /\ stack' = Tail(stack)
    /\ pc' = IF Len(stack) = 1 THEN "publish" ELSE pc

\* Line 56 with a guard that only sees finalization done.
AlreadyStarted_OnlyDone(a) == record_id_to_adapter[a].finalization_state = Done

\* Line 56 with a guard that only sees finalization in progress.
AlreadyStarted_OnlyInProgress(a) == record_id_to_adapter[a].finalization_state = InProgress

\* enums.py line 56: finalization is either in progress or done.
AlreadyStarted(a) == record_id_to_adapter[a].finalization_state # Pending

\* EnumAdapter.finalize, lines 56-60: the guard and the mark "in progress".
FinalizeEnter ==
    /\ pc = "finalize"
    /\ stack # <<>>
    /\ LET f == Head(stack)
           a == f.adapter.rec
       IN /\ IsRecordAdapter(f.adapter)
          /\ f.at = "entry"
          /\ IF AlreadyStarted(a)
             THEN /\ Return
                  /\ UNCHANGED record_id_to_adapter
             ELSE /\ record_id_to_adapter' =
                        [record_id_to_adapter EXCEPT ![a].finalization_state = InProgress,
                                                     ![a].started = @ + 1]
                  /\ stack' = <<[f EXCEPT !.at = "resolve"]>> \o Tail(stack)
                  /\ pc' = pc
    /\ UNCHANGED <<schema, array_adapters, optional_adapters,
                   records, idx, module_adapters, globals, methods, constants,
                   result, missing, nonInitVars>>

\* Lines 65-68 as they would be inside a try block that puts the state back
\* to 0 when resolving raises.
FinalizeResolve_ResetOnError ==
    /\ pc = "finalize"
    /\ stack # <<>>
    /\ LET f == Head(stack)
           a == f.adapter.rec
           types == schema[record_id_to_adapter[a].id]
       IN /\ IsRecordAdapter(f.adapter)
          /\ f.at = "resolve"
          /\ IF f.i > Len(types)
             THEN /\ stack' = <<[f EXCEPT !.at = "children", !.i = 1]>> \o Tail(stack)
                  /\ pc' = pc
                  /\ UNCHANGED <<array_adapters, optional_adapters, result, missing,
                                 record_id_to_adapter>>
             ELSE IF resolve_type(types[f.i]).error # ""
             THEN /\ Raise(resolve_type(types[f.i]).error, resolve_type(types[f.i]).key)
                  /\ record_id_to_adapter' =
                        [record_id_to_adapter EXCEPT ![a].finalization_state = Pending]
                  /\ UNCHANGED <<array_adapters, optional_adapters>>
             ELSE /\ stack' = <<[f EXCEPT !.i = @ + 1,
                                          !.value_fields =
                                              Append(@, resolve_type(types[f.i]).value)]>>
                               \o Tail(stack)
                  /\ array_adapters' = get_array_adapter(types[f.i])
                  /\ optional_adapters' = get_optional_adapter(types[f.i])
                  /\ pc' = pc
                  /\ UNCHANGED <<result, missing, record_id_to_adapter>>
    /\ UNCHANGED <<schema, records, idx, module_adapters,
                   globals, methods, constants, nonInitVars>>

\* EnumAdapter.finalize, lines 65-68: resolve the type of the next value
\* field; past the last one, go on to the loop of line 75.
FinalizeResolve ==
    /\ pc = "finalize"
    /\ stack # <<>>
    /\ LET f == Head(stack)
           a == f.adapter.rec
           types == schema[record_id_to_adapter[a].id]
       IN /\ IsRecordAdapter(f.adapter)
          /\ f.at = "resolve"
          /\ IF f.i > Len(types)
             THEN /\ stack' = <<[f EXCEPT !.at = "children", !.i = 1]>> \o Tail(stack)
                  /\ pc' = pc
                  /\ UNCHANGED <<array_adapters, optional_adapters, result, missing>>
             ELSE IF resolve_type(types[f.i]).error # ""
             THEN /\ Raise(resolve_type(types[f.i]).error, resolve_type(types[f.i]).key)
                  /\ UNCHANGED <<array_adapters, optional_adapters>>
             ELSE /\ stack' = <<[f EXCEPT !.i = @ + 1,
                                          !.value_fields =
                                              Append(@, resolve_type(types[f.i]).value)]>>
                               \o Tail(stack)
                  /\ array_adapters' = get_array_adapter(types[f.i])
                  /\ optional_adapters' = get_optional_adapter(types[f.i])
                  /\ pc' = pc
                  /\ UNCHANGED <<result, missing>>
    /\ UNCHANGED <<schema, record_id_to_adapter, records, idx, module_adapters,
                   globals, methods, constants, nonInitVars>>

\* EnumAdapter.finalize, lines 75-76: finalize the type of the next value field.
FinalizeChild ==
    /\ pc = "finalize"
    /\ stack # <<>>
    /\ LET f == Head(stack)
       IN /\ IsRecordAdapter(f.adapter)
          /\ f.at = "children"
          /\ f.i <= Len(f.value_fields)
          /\ stack' = <<Frame(f.value_fields[f.i], "entry"), [f EXCEPT !.i = @ + 1]>>
                      \o Tail(stack)
    /\ UNCHANGED <<schema, record_id_to_adapter, array_adapters,
                   optional_adapters, pc, records, idx, module_adapters, globals,
                   methods, constants, result, missing, nonInitVars>>

\* Line 88 forgotten: the adapter stays in progress.
StateWhenFinished_NotMarked == InProgress

\* enums.py line 88: the state finalize leaves the adapter in.
StateWhenFinished == Done

\* EnumAdapter.finalize, lines 78-88: set the wrap factories and _fj, mark done.
FinalizeFinish ==
    /\ pc = "finalize"
    /\ stack # <<>>
    /\ LET f == Head(stack)
           a == f.adapter.rec
       IN /\ IsRecordAdapter(f.adapter)
          /\ f.at = "children"
          /\ f.i > Len(f.value_fields)
          /\ record_id_to_adapter' = [record_id_to_adapter EXCEPT
                ![a].wrap_fns = IF f.value_fields = <<>> THEN @ ELSE @ + 1,
                ![a].fj = @ + 1,
                ![a].finalization_state = StateWhenFinished,
                ![a].finished = @ + 1]
          /\ Return
    /\ UNCHANGED <<schema, array_adapters, optional_adapters,
                   records, idx, module_adapters, globals, methods, constants,
                   result, missing, nonInitVars>>

\* _ArrayAdapter.finalize and _OptionalAdapter.finalize: finalize the item
\* (the other) adapter, then return.
FinalizeWrapper ==
    /\ pc = "finalize"
    /\ stack # <<>>
    /\ LET f == Head(stack)
           inner == TypeAdapter(Tail(f.adapter.wrap), f.adapter.rec)
       IN /\ f.adapter.wrap # <<>>
          /\ IF f.at = "entry"
             THEN /\ stack' = <<Frame(inner, "entry"), [f EXCEPT !.at = "return"]>>
                              \o Tail(stack)
                  /\ pc' = pc
             ELSE Return
    /\ UNCHANGED <<schema, record_id_to_adapter, array_adapters,
                   optional_adapters, records, idx, module_adapters, globals,
                   methods, constants, result, missing, nonInitVars>>

\* AbstractPrimitiveAdapter.finalize: pass.
FinalizePrimitive ==
    /\ pc = "finalize"
    /\ stack # <<>>
    /\ Head(stack).adapter = TypeAdapter(<<>>, "prim")
    /\ Return
    /\ UNCHANGED <<schema, record_id_to_adapter, array_adapters,
                   optional_adapters, records, idx, module_adapters, globals,
                   methods, constants, result, missing, nonInitVars>>

\* Lines 73-79 without the branch on the parent: every class goes to globals.
Publish_AlwaysGlobals ==
    /\ pc = "publish"
    /\ LET a == module_adapters[idx]
           id == record_id_to_adapter[a].id
       IN /\ globals' = globals \cup {ClassName(id)}
          /\ record_id_to_adapter' =
                [record_id_to_adapter EXCEPT ![a].parent_class = "None",
                                             ![a].serializer = TRUE]
          /\ pc' = "finalize_loop"
          /\ idx' = idx + 1
          /\ UNCHANGED <<result, missing, stack>>
    /\ UNCHANGED <<schema, array_adapters, optional_adapters,
                   records, module_adapters, methods, constants, nonInitVars>>

\* init_module lines 67-81: publish the class of the adapter just finalized.
Publish ==
    /\ pc = "publish"
    /\ LET a == module_adapters[idx]
           id == record_id_to_adapter[a].id
           parent == Parent(id)
       IN IF parent = ""
          THEN /\ globals' = globals \cup {ClassName(id)}
               /\ record_id_to_adapter' =
                     [record_id_to_adapter EXCEPT ![a].parent_class = "None",
                                                  ![a].serializer = TRUE]
               /\ pc' = "finalize_loop"
               /\ idx' = idx + 1
               /\ UNCHANGED <<result, missing, stack>>
          ELSE IF parent \notin DOMAIN record_id_to_adapter
          THEN /\ Raise("KeyError", parent)
               /\ UNCHANGED <<globals, record_id_to_adapter, idx>>
          ELSE /\ record_id_to_adapter' =
                     [record_id_to_adapter EXCEPT
                        ![a].parent_class = parent,
                        ![a].serializer = TRUE,
                        ![parent].attrs = @ \cup {ClassName(id)}]
               /\ pc' = "finalize_loop"
               /\ idx' = idx + 1
               /\ UNCHANGED <<globals, result, missing, stack>>
    /\ UNCHANGED <<schema, array_adapters, optional_adapters,
                   records, module_adapters, methods, constants, nonInitVars>>

\* The types a methods tuple makes init_module resolve, in order (lines 86-87).
MethodTypes(ms) ==
    IF ms = <<>> THEN <<>> ELSE <<ms[1].request_type, ms[1].response_type>>

\* The types a constants tuple makes init_module resolve, in order (line 98).
ConstantTypes(cs) == [i \in 1..Len(cs) |-> cs[i].type]

\* The first type of the sequence that does not resolve, 0 if all do.
FirstUnresolved(types) ==
    IF \A i \in 1..Len(types) : resolve_type(types[i]).error = "" THEN 0
    ELSE CHOOSE i \in 1..Len(types) :
            /\ resolve_type(types[i]).error # ""
            /\ \A j \in 1..(i - 1) : resolve_type(types[j]).error = ""

\* init_module lines 84-94: create the methods.
CreateMethods ==
    /\ pc = "finalize_loop"
    /\ idx > Len(module_adapters)
    /\ \E ms \in MethodChoices :
         LET types == MethodTypes(ms)
             bad == FirstUnresolved(types)
             done == IF bad = 0 THEN 1..Len(types) ELSE 1..(bad - 1)
         IN /\ methods' = ms
            /\ array_adapters' =
                  array_adapters \cup UNION {Wrapped(types[i], "arr") : i \in done}
            /\ optional_adapters' =
                  optional_adapters \cup UNION {Wrapped(types[i], "opt") : i \in done}
            /\ IF bad = 0
               THEN /\ globals' = globals \cup {ms[i].name : i \in 1..Len(ms)}
                    /\ pc' = "constants"
                    /\ UNCHANGED <<result, missing, stack>>
               ELSE /\ Raise(resolve_type(types[bad]).error, resolve_type(types[bad]).key)
                    /\ UNCHANGED globals
    /\ UNCHANGED <<schema, record_id_to_adapter, records, idx,
                   module_adapters, constants, nonInitVars>>

\* init_module lines 97-100: create the constants, and return.
CreateConstants ==
    /\ pc = "constants"
    /\ \E cs \in ConstantChoices :
         LET types == ConstantTypes(cs)
             bad == FirstUnresolved(types)
             done == IF bad = 0 THEN 1..Len(types) ELSE 1..(bad - 1)
         IN /\ constants' = cs
            /\ array_adapters' =
                  array_adapters \cup UNION {Wrapped(types[i], "arr") : i \in done}
            /\ optional_adapters' =
                  optional_adapters \cup UNION {Wrapped(types[i], "opt") : i \in done}
            /\ IF bad = 0
               THEN /\ globals' = globals \cup {cs[i].name : i \in 1..Len(cs)}
                    /\ pc' = "done"
                    /\ result' = "ok"
                    /\ UNCHANGED <<missing, stack>>
               ELSE /\ Raise(resolve_type(types[bad]).error, resolve_type(types[bad]).key)
                    /\ UNCHANGED globals
    /\ UNCHANGED <<schema, record_id_to_adapter, records, idx,
                   module_adapters, methods, nonInitVars>>

\* No codec call has been made.
CodecIdle ==
    /\ c_pc = "idle"
    /\ c_op = ""
    /\ c_in = <<>>
    /\ c_target = ""
    /\ c_stream = <<>>
    /\ c_pos = 0
    /\ c_out = <<>>
    /\ c_err = ""

(***************************************************************************)
(* Part III: keyed arrays (soialib/impl/arrays.py, KeyedItemsImpl)          *)
(*                                                                         *)
(* One frozen keyed array.  An element is known by its index in the array  *)
(* (its identity); k_items gives the key found at each element's key path. *)
(***************************************************************************)

\* Bound: the length of the keyed array.
MaxItems == 3

\* The keys elements carry, and a key that no element carries.
Keys == {"a", "b"}

ArgKeys == Keys \cup {"z"}

\* dict.get(key) when the key is missing (line 152).
None == 0

\* The default value of the item adapter (lines 135-139), which is no element
\* of the array.
default == 0 - 1

\* A dict of identity id (0: no dict).
Dict(id, map) == [set |-> id # 0, id |-> id, map |-> map]

\* The attribute _key_to_item is not set: reading it raises AttributeError.
Absent == Dict(0, <<>>)

\* Line 130 with the assignment skipped when the key is already there.
dict_set_KeepFirst(ret, key, item) ==
    [k \in DOMAIN ret \cup {key} |-> IF k \in DOMAIN ret THEN ret[k] ELSE item]

\* ret[key] = item (line 130)
dict_set(ret, key, item) ==
    [k \in DOMAIN ret \cup {key} |-> IF k = key THEN item ELSE ret[k]]

RECURSIVE key_items_loop(_, _)
\* The dict ret after the first n iterations of the loop of key_items
\* (lines 128-130).
key_items_loop(items, n) ==
    IF n = 0 THEN <<>>
    ELSE dict_set(key_items_loop(items, n - 1), items[n], n)

\* key_items(items), lines 124-133
key_items(items) == key_items_loop(items, Len(items))

\* key_to_item.get(key), line 152
dict_get(key_to_item, key) ==
    IF key \in DOMAIN key_to_item THEN key_to_item[key] ELSE None

\* The truth value of what find returns: None is false; an element is an
\* instance of a struct class, true as every object is that defines neither
\* __bool__ nor __len__.
Truthy(value) == value # None

\* "found or default" evaluated as "found": the default is never used.
or_default_Never(found) == found

\* self.find(key) or default (line 155)
or_default(found) == IF Truthy(found) THEN found ELSE default

NoCall == [method |-> "", key |-> ""]

NoReturn == [done |-> FALSE, value |-> None]

\* No keyed array is in use.
KeyedIdle ==
    /\ k_threads = {}
    /\ k_items = <<>>
    /\ k_key_to_item = Absent
    /\ k_builds = 0
    /\ k_pc = <<>>
    /\ k_call = <<>>
    /\ k_local = <<>>
    /\ k_ret = <<>>

(***************************************************************************)
(* Part IV: the arrays of one array adapter (soialib/impl/arrays.py)        *)
(*                                                                         *)
(* a_heap[i] holds the items of the instance of identity i of the          *)
(* adapter's listuple class.                                               *)
(***************************************************************************)

\* Bound: the number of listuple instances.
MaxObjects == 4

\* Bound: the length of an iterable or JSON list handed to the adapter.
MaxArrayLen == 2

\* The items: frozen values of the item type.
ArrayItems == {"p"}

\* self.empty_listuple = listuple_class() (line 44): the first instance.
empty_listuple == 1

\* listuple_class(iterable): a new instance of a subclass of tuple, whatever
\* the iterable is.
listuple_class(heap, iterable) ==
    [heap |-> Append(heap, iterable), value |-> Len(heap) + 1, error |-> ""]

\* A list: a Python list or JSON list of the given items.
List(items) == [class |-> "list", items |-> items, id |-> 0]

\* A reference to the listuple instance of identity id.
Listuple(id) == [class |-> "_lstpl", items |-> <<>>, id |-> id]

\* The items an iterable yields.
ItemsOf(heap, arg) == IF arg.class = "_lstpl" THEN heap[arg.id] ELSE arg.items

\* bool(x) of a list or tuple: whether it has items.
NotEmpty(items) == Len(items) > 0

\* to_frozen_expr (lines 49-68):
\*   (arg if arg.__class__ is _lstpl else (_lstpl([... for _e in arg]) or _emp))
to_frozen_expr(heap, arg) ==
    IF arg.class = "_lstpl"
    THEN [heap |-> heap, value |-> arg.id, error |-> ""]
    ELSE IF NotEmpty(ItemsOf(heap, arg))
         THEN listuple_class(heap, ItemsOf(heap, arg))
         ELSE [heap |-> heap, value |-> empty_listuple, error |-> ""]

\* from_json_expr (lines 89-101):
\*   _lstpl([item_from_json(_e) for e in json] or _emp)
\* The loop variable is e and the item expression reads _e, a name that is
\* bound nowhere: the first item raises NameError.  An empty list is false,
\* so the listuple class is called with the empty instance as its argument.
from_json_expr(heap, json) ==
    IF NotEmpty(json)
    THEN [heap |-> heap, value |-> 0, error |-> "NameError"]
    ELSE listuple_class(heap, heap[empty_listuple])

\* No array adapter is in use.
ArraysIdle ==
    /\ a_heap = <<>>
    /\ a_op = ""
    /\ a_value = 0
    /\ a_err = ""

(***************************************************************************)
(* Part V: the adapter caches (arrays.py lines 12-23, optionals.py 14-17)   *)
(*                                                                         *)
(* An adapter is known by its serial number (its identity).  Adapters 1    *)
(* and 2 exist beforehand: a primitive adapter and a record adapter.       *)
(***************************************************************************)

\* Bound: the number of adapters the calls construct.
MaxCalls == 4

BaseAdapters == {1, 2}

\* The key_attributes arguments: an unkeyed array, and an array keyed by "k".
KeyAttributes == {<<>>, <<"k">>}

\* A dict is a function; {} is the function of empty domain.
EmptyDict == <<>>

\* dict[key] = value in place of setdefault: an entry there is replaced.
setdefault_Overwrite(dict, key, value) ==
    [dict |-> [k \in DOMAIN dict \cup {key} |->
                  IF k = key THEN value ELSE dict[k]],
     value |-> value]

\* dict.setdefault(key, value): the value there if the key is there, value
\* after adding it if not.  The dicts keyed by adapter are WeakKeyDictionary
\* objects whose values refer to their key, so no entry is ever dropped.
setdefault(dict, key, value) ==
    IF key \in DOMAIN dict
    THEN [dict |-> dict, value |-> dict[key]]
    ELSE [dict |-> [k \in DOMAIN dict \cup {key} |->
                       IF k = key THEN value ELSE dict[k]],
          value |-> value]

\* The adapters a caller can hold: the base ones and those the caches hold.
Held ==
    BaseAdapters
       \cup {g_other_to_optional[a] : a \in DOMAIN g_other_to_optional}
       \cup UNION {{g_item_to_array_adapters[a][key] :
                       key \in DOMAIN g_item_to_array_adapters[a]} :
                   a \in DOMAIN g_item_to_array_adapters}

\* The record kept of a call.
Call(fn, adapter, key_attributes, constructed, returned) ==
    [fn |-> fn, adapter |-> adapter, key_attributes |-> key_attributes,
     constructed |-> constructed, returned |-> returned]

\* The caches are not in use.
CachesIdle ==
    /\ g_item_to_array_adapters = EmptyDict
    /\ g_other_to_optional = EmptyDict
    /\ g_constructed = 0
    /\ g_calls = {}

(***************************************************************************)
(* Part VI: frozen objects (serializer.py 52-56, enums.py 145-149,         *)
(* arrays.py 157-161)                                                      *)
(***************************************************************************)

\* A frozen struct: the Point of the tests, x = 1.5 and y = 2.5.
FrozenStruct == [x |-> "1.5", y |-> "2.5"]

\* An enum instance: a value variant, whose slot "value" holds the payload.
EnumInstance == [value |-> "E"]

\* A keyed array: its items, and no attribute until find sets _key_to_item.
NewKeyedArray == [items |-> "(a, b)"]

\* A Serializer: the three slots set by __init__ (serializer.py 24-35).
NewSerializer ==
    [_to_dense_json_fn |-> "to_json", _to_readable_json_fn |-> "to_json",
     _from_json_fn |-> "from_json"]

FrozenKinds == {"struct", "enum", "keyed array", "Serializer"}

\* The objects as constructed.
NewObjects ==
    [kind \in FrozenKinds |->
        CASE kind = "struct" -> FrozenStruct
          [] kind = "enum" -> EnumInstance
          [] kind = "keyed array" -> NewKeyedArray
          [] kind = "Serializer" -> NewSerializer]

\* The attribute names a caller tries: those of the object, and one more.
AttributeNames(kind) == DOMAIN NewObjects[kind] \cup {"other"}

\* The values a caller tries to assign.
AssignedValues == {"3.5", "None"}

\* object.__setattr__(self, name, value): the attribute is set.
object__setattr__(self, name, value) ==
    [obj |-> [n \in DOMAIN self \cup {name} |->
                 IF n = name THEN value ELSE self[n]],
     error |-> ""]

\* A __setattr__ that is not overridden.
__setattr___NotOverridden(self, name, value) ==
    object__setattr__(self, name, value)

\* __setattr__ of Serializer, of the enum base class and of KeyedItemsImpl:
\* raise FrozenInstanceError(self.__class__.__qualname__)
__setattr__(self, name, value) ==
    [obj |-> self, error |-> "FrozenInstanceError"]

\* __delattr__ of the same classes.
__delattr__(self, name) ==
    [obj |-> self, error |-> "FrozenInstanceError"]

\* No frozen object is in use.
FrozenIdle ==
    /\ f_objects = <<>>
    /\ f_op = ""
    /\ f_target = <<>>
    /\ f_err = ""
    /\ f_raised = {}

(***************************************************************************)
(* Part VII: enum values and their JSON (soialib/impl/enums.py)             *)
(***************************************************************************)

\* A JSON value, and a Python value of a primitive type, in one shape:
\* t is its type, n its number, s its string, items its elements (a list) or
\* values (a dict), keys the keys of a dict.
Value(t, n, s, items, keys) ==
    [t |-> t, n |-> n, s |-> s, items |-> items, keys |-> keys]

JInt(n) == Value("int", n, "", <<>>, <<>>)
JStr(s) == Value("str", 0, s, <<>>, <<>>)
JBool(b) == Value("bool", IF b THEN 1 ELSE 0, "", <<>>, <<>>)
JNull == Value("NoneType", 0, "", <<>>, <<>>)
JList(items) == Value("list", 0, "", items, <<>>)
JDict(keys, items) == Value("dict", 0, "", items, keys)

\* spec.ConstantField and spec.ValueField
ConstantField(name, number) == [name |-> name, number |-> number, type |-> ""]
ValueField(name, number, type) == [name |-> name, number |-> number, type |-> type]

\* spec.Enum
Enum(id, constant_fields, value_fields, removed_numbers) ==
    [id |-> id, constant_fields |-> constant_fields,
     value_fields |-> value_fields, removed_numbers |-> removed_numbers]

\* The enums of the test module (JsonValue with two of its value fields),
\* and an enum that declares no constant.
PrimaryColor ==
    Enum("PrimaryColor",
         <<ConstantField("RED", 10), ConstantField("GREEN", 20),
           ConstantField("BLUE", 30)>>,
         <<>>, {})

Status ==
    Enum("Status", <<ConstantField("OK", 1)>>,
         <<ValueField("error", 2, "string")>>, {1, 4})

JsonValue ==
    Enum("JsonValue", <<ConstantField("NULL", 1)>>,
         <<ValueField("bool", 2, "bool"), ValueField("string", 4, "string")>>,
         {100, 101})

Bare == Enum("Bare", <<>>, <<ValueField("text", 1, "string")>>, {})

Enums == {PrimaryColor, Status, JsonValue, Bare}

\* EnumAdapter.all_constant_fields (lines 90-97)
all_constant_fields(spec) ==
    spec.constant_fields \o <<ConstantField("?", 0)>>

\* An instance of the class of a field of the enum: its class attributes
\* kind and _number, and its slot value.
Instance(spec, field, value) ==
    [cls |-> "enum", record |-> spec.id, kind |-> field.name,
     number |-> field.number, hv |-> field.type # "", type |-> field.type,
     value |-> value]

\* ConstantClass() (lines 166-186): value is None.
ConstantOf(spec, field) == Instance(spec, field, JNull)

\* The constant UNKNOWN of the enum.
UNKNOWN(spec) == ConstantOf(spec, ConstantField("?", 0))

\* The Ellipsis object, which "return ..." returns.
Ellipsis ==
    [cls |-> "ellipsis", record |-> "", kind |-> "", number |-> 0,
     hv |-> FALSE, type |-> "", value |-> JNull]

\* A value that is no enum instance: an int, a str, None.
Plain(value) ==
    [cls |-> value.t, record |-> "", kind |-> "", number |-> 0,
     hv |-> FALSE, type |-> "", value |-> value]

\* The payloads of each primitive type, already frozen.
Payloads(type) ==
    IF type = "bool" THEN {JBool(TRUE), JBool(FALSE)}
    ELSE {JStr("E"), JStr("F"), JStr("")}

\* wrap_<name>(value) (lines 273-285) for a frozen value.
wrap(spec, field, value) == Instance(spec, field, value)

\* The instances of an enum: its constants, UNKNOWN, and wrapped values.
Instances(spec) ==
    {ConstantOf(spec, all_constant_fields(spec)[i]) :
        i \in 1..Len(all_constant_fields(spec))}
    \cup UNION {{wrap(spec, spec.value_fields[i], v) :
                    v \in Payloads(spec.value_fields[i].type)} :
                i \in 1..Len(spec.value_fields)}

\* BaseClass.__eq__ comparing the kinds only.
__eq___KindOnly(self, other) ==
    IF other.cls = "enum" /\ other.record = self.record
    THEN IF other.kind = self.kind THEN "True" ELSE "False"
    ELSE "NotImplemented"

\* BaseClass.__eq__ (lines 151-155); isinstance(other, BaseClass) holds for
\* the instances of the same enum record, whose classes derive from the one
\* BaseClass made for the record.
__eq__(self, other) ==
    IF other.cls = "enum" /\ other.record = self.record
    THEN IF other.kind = self.kind /\ other.value = self.value
         THEN "True" ELSE "False"
    ELSE "NotImplemented"

\* __eq__ of a value that is no enum instance, handed an enum instance.
plain__eq__(self, other) ==
    IF other.cls = self.cls
    THEN IF other.value = self.value THEN "True" ELSE "False"
    ELSE "NotImplemented"

\* a == b as Python evaluates it: a.__eq__(b), then the reflected
\* b.__eq__(a) if that returned NotImplemented, then "a is b", which is
\* false here as operands of different classes are different objects.
Equal(a, b) ==
    LET eq(x, y) == IF x.cls = "enum" THEN __eq__(x, y) ELSE plain__eq__(x, y)
        first == eq(a, b)
        second == eq(b, a)
    IN IF first # "NotImplemented" THEN first = "True"
       ELSE IF second # "NotImplemented" THEN second = "True"
       ELSE FALSE

\* What a call ends with: the value returned, or the exception raised
\* ("no return" when it never returns).
Result(error, value) == [error |-> error, value |-> value]

\* to_json_expr of the primitive adapters (primitives.py lines 30-38, 188).
payload_to_json(type, value, readable) ==
    IF type = "bool"
    THEN IF readable THEN JBool(value.n # 0)
         ELSE JInt(IF value.n # 0 THEN 1 ELSE 0)
    ELSE value

\* Serializer.to_json: the attribute _rj or _dj of the value (lines 112-113):
\* number or name for a constant (lines 171-176), [number, payload] or
\* {"kind": name, "value": payload} for a wrapped value (lines 214-244).
to_json(x, readable) ==
    IF ~x.hv
    THEN IF readable THEN JStr(x.kind) ELSE JInt(x.number)
    ELSE IF readable
         THEN JDict(<<"kind", "value">>,
                    <<JStr(x.kind), payload_to_json(x.type, x.value, TRUE)>>)
         ELSE JList(<<JInt(x.number), payload_to_json(x.type, x.value, FALSE)>>)

\* key_to_constant (lines 293-298): the constant of a number or of a name.
key_to_constant(spec) ==
    LET fields == all_constant_fields(spec)
    IN [key \in {JInt(fields[i].number) : i \in 1..Len(fields)}
                   \cup {JStr(fields[i].name) : i \in 1..Len(fields)} |->
          ConstantOf(spec, fields[CHOOSE i \in 1..Len(fields) :
                              /\ key \in {JInt(fields[i].number), JStr(fields[i].name)}
                              /\ \A j \in (i + 1)..Len(fields) :
                                    key \notin {JInt(fields[j].number),
                                                JStr(fields[j].name)}])]

\* value_keys (line 310): the numbers and names of the value fields.
value_keys(spec) ==
    {JInt(spec.value_fields[i].number) : i \in 1..Len(spec.value_fields)}
       \cup {JStr(spec.value_fields[i].name) : i \in 1..Len(spec.value_fields)}

\* json[key] of a dict.
Subscript(json, key) ==
    IF \E i \in 1..Len(json.keys) : json.keys[i] = key
    THEN Result("", json.items[CHOOSE i \in 1..Len(json.keys) : json.keys[i] = key])
    ELSE Result("KeyError", JNull)

\* The list branch of from_json (lines 347-359): "number" is read at line
\* 353 or 355, before line 358 assigns it, and it is a local of the function.
from_json_list(spec, json) ==
    IF Len(spec.value_fields) = 0
    THEN Result("", Ellipsis)
    ELSE Result("UnboundLocalError", Ellipsis)

\* The dict branch of from_json (lines 392-402) with its leaves (lines
\* 374-381), where object.__setattr__ is called with two arguments.
from_json_dict(spec, json) ==
    IF Len(spec.value_fields) = 0
    THEN Result("", UNKNOWN(spec))
    ELSE LET name == Subscript(json, "name")
         IN IF name.error # "" THEN Result(name.error, Ellipsis)
            ELSE IF name.value \notin value_keys(spec)
                 THEN Result("", UNKNOWN(spec))
                 ELSE IF Subscript(json, "value").error # ""
                      THEN Result("KeyError", Ellipsis)
                      ELSE Result("TypeError", Ellipsis)

\* The function that _make_from_json_fn builds (lines 286-408).
from_json(spec, json) ==
    IF Len(all_constant_fields(spec)) = 1
    THEN \* lines 317-319, 347, 362-364, 392: one if / elif chain
         IF json.t \in {"int", "bool"} /\ json.n = 0
         THEN Result("", UNKNOWN(spec))
         ELSE IF json.t = "list" THEN from_json_list(spec, json)
         ELSE IF json = JStr("?") THEN Result("", UNKNOWN(spec))
         ELSE IF json.t = "dict" THEN from_json_dict(spec, json)
         ELSE Result("no return", Ellipsis)
    ELSE \* lines 321-326, 347, 366-372, 392: two chains
         IF json.t = "int"
         THEN IF json \in DOMAIN key_to_constant(spec)
              THEN Result("", key_to_constant(spec)[json])
              ELSE Result("", Ellipsis)
         ELSE IF json.t = "list" THEN from_json_list(spec, json)
         ELSE IF json.t = "str"
         THEN IF json \in DOMAIN key_to_constant(spec)
              THEN Result("", key_to_constant(spec)[json])
              ELSE Result("", UNKNOWN(spec))
         ELSE IF json.t = "dict" THEN from_json_dict(spec, json)
         ELSE Result("no return", Ellipsis)

\* No enum is in use.
EnumsIdle ==
    /\ e_pc = "idle"
    /\ e_op = ""
    /\ e_enum = Enum("", <<>>, <<>>, {})
    /\ e_x = Ellipsis
    /\ e_readable = FALSE
    /\ e_json = JNull
    /\ e_back = Result("", Ellipsis)
    /\ e_again = JNull
    /\ e_other = Ellipsis
    /\ e_eq = FALSE

\* spec.Field and spec.Struct
Field(name, number, type) == [name |-> name, number |-> number, type |-> type]
Struct(id, fields, removed_numbers) ==
    [id |-> id, fields |-> fields, removed_numbers |-> removed_numbers]

\* A frozen instance of the class of a struct: its fields by name and its
\* unrecognized tail.
Frozen(spec, fields, unrecognized) ==
    [cls |-> "frozen", record |-> spec.id, fields |-> fields,
     unrecognized |-> unrecognized]

\* No struct serializer has been called.
StructsIdle ==
    /\ s_pc = "idle"
    /\ s_op = ""
    /\ s_struct = Struct("", <<>>, {})
    /\ s_given = JNull
    /\ s_value = Frozen(Struct("", <<>>, {}), <<>>, <<>>)
    /\ s_copied = FALSE
    /\ s_json = JNull

\* No init_module call has been made: the registry and the caches are empty.
RegistryEmpty ==
    /\ record_id_to_adapter = <<>>
    /\ array_adapters = {}
    /\ optional_adapters = {}
    /\ pc = "idle"
    /\ records = <<>>
    /\ idx = 1
    /\ module_adapters = <<>>
    /\ stack = <<>>
    /\ globals = {}
    /\ methods = <<>>
    /\ constants = <<>>
    /\ result = "none"
    /\ missing = ""

Init ==
    /\ schema \in [RecordIds -> FieldChoices]
    /\ RegistryEmpty
    /\ CodecIdle
    /\ KeyedIdle
    /\ ArraysIdle
    /\ CachesIdle
    /\ FrozenIdle
    /\ EnumsIdle
    /\ StructsIdle

Next ==
    \/ CallInitModule
    \/ RegisterRecord
    \/ StartFinalizing
    \/ FinalizeNext
    \/ FinalizeEnter
    \/ FinalizeResolve
    \/ FinalizeChild
    \/ FinalizeFinish
    \/ FinalizeWrapper
    \/ FinalizePrimitive
    \/ Publish
    \/ CreateMethods
    \/ CreateConstants

Spec == Init /\ [][Next]_vars

\* The steps of a running init_module call: the call runs to completion.
RunsToCompletion ==
    \/ RegisterRecord
    \/ StartFinalizing
    \/ FinalizeNext
    \/ FinalizeEnter
    \/ FinalizeResolve
    \/ FinalizeChild
    \/ FinalizeFinish
    \/ FinalizeWrapper
    \/ FinalizePrimitive
    \/ Publish
    \/ CreateMethods
    \/ CreateConstants

\* Python runs a call until it returns or raises.
FairSpec == Spec /\ WF_vars(RunsToCompletion)

(***************************************************************************)
(* Part I: properties                                                      *)
(***************************************************************************)

ReturnedNormally == pc = "done" /\ result = "ok"

\* The record ids a type sequence names.
RecordsNamed(types) == {BaseOf(types[i]) : i \in 1..Len(types)} \ {"prim"}

\* C1: after init_module returns normally, every record adapter created for
\* the module (one per record of the tuple) is in state done, and was set to
\* in-progress exactly once and to done exactly once; also with records that
\* reference each other cyclically.
InitModuleLeavesAllDone ==
    ReturnedNormally =>
        /\ Len(module_adapters) = Len(records)
        /\ \A i \in 1..Len(module_adapters) :
             LET a == record_id_to_adapter[module_adapters[i]]
             IN /\ a.id = records[i]
                /\ a.finalization_state = Done
                /\ a.started = 1
                /\ a.finished = 1

\* C1 witness: a module of two records that reference each other ("A" names
\* "A.N", "A.N" names "A" through an array) has been initialized.
InitModuleCycleDone ==
    /\ ReturnedNormally
    /\ records = <<"A", "A.N">>
    /\ "A.N" \in RecordsNamed(schema["A"])
    /\ "A" \in RecordsNamed(schema["A.N"])

\* The body of finalize ran at most once on every record adapter.
BodyRunsAtMostOnce ==
    \A a \in DOMAIN record_id_to_adapter : record_id_to_adapter[a].started <= 1

\* A finalize call is about to run its guard on a record adapter in state s.
EntersInState(s) ==
    /\ pc = "finalize"
    /\ stack # <<>>
    /\ IsRecordAdapter(Head(stack).adapter)
    /\ Head(stack).at = "entry"
    /\ record_id_to_adapter[Head(stack).adapter.rec].finalization_state = s

\* C2: finalize terminates on every schema graph, cycles through records,
\* arrays and optionals included: the body of finalize runs at most once per
\* record adapter, and every finalize call init_module makes returns (or
\* raises).
FinalizeTerminates ==
    /\ []BodyRunsAtMostOnce
    /\ (pc = "finalize") ~> (pc # "finalize")

\* C2 witness: a re-entrant finalize call reaches the guard of an adapter that
\* is in progress further down the stack.
ReentrantFinalize ==
    /\ EntersInState(InProgress)
    /\ \E k \in 2..Len(stack) :
         /\ stack[k].adapter = Head(stack).adapter
         /\ stack[k].at = "children"

\* C3: finalize on an adapter whose finalization is done is a no-op: it
\* returns, the state stays done, no type reference is resolved (no adapter
\* and no cache changes), and the wrap factories and _fj are not replaced.
FinalizeDoneIsNoOp ==
    [][EntersInState(Done) =>
          /\ stack' = Tail(stack)
          /\ record_id_to_adapter' = record_id_to_adapter
          /\ array_adapters' = array_adapters
          /\ optional_adapters' = optional_adapters
          /\ globals' = globals]_vars

\* C3 witness: finalize is called, as a dependency, on an adapter that is done.
FinalizeCalledOnDone == EntersInState(Done) /\ Len(stack) > 1

\* C4: init_module fails when a record of its tuple has an id that is already
\* a key of the registry, and no adapter of the registry is ever replaced.
DuplicateIdFails ==
    [][/\ (/\ pc = "register"
           /\ idx <= Len(records)
           /\ records[idx] \in DOMAIN record_id_to_adapter)
          => /\ pc' = "done"
             /\ result' = "AssertionError"
             /\ record_id_to_adapter' = record_id_to_adapter
       /\ \A id \in DOMAIN record_id_to_adapter :
             /\ id \in DOMAIN record_id_to_adapter'
             /\ record_id_to_adapter'[id].ordinal = record_id_to_adapter[id].ordinal]_vars

\* C4 witness: the call failed on the second record of a tuple that names the
\* same id twice.
DuplicateInTuple ==
    /\ pc = "done"
    /\ result = "AssertionError"
    /\ Len(records) = 2
    /\ records[1] = records[2]
    /\ idx = 2

\* Every record of the tuple has its adapter, in the registry under its id.
AllRegistered ==
    /\ Len(module_adapters) = Len(records)
    /\ \A i \in 1..Len(records) :
         /\ records[i] \in DOMAIN record_id_to_adapter
         /\ module_adapters[i] = records[i]

\* C5: no finalize is invoked before every record of the tuple has its adapter
\* in the registry; so no type reference to a record of the tuple, a later one
\* included, fails to resolve.
FinalizeAfterAllRegistered ==
    /\ (pc \in {"finalize_loop", "finalize", "publish"} \/ stack # <<>>)
          => AllRegistered
    /\ (pc = "done" /\ result = "KeyError") => missing \notin Range(records)

\* C5 witness: finalize of the first record of the tuple has resolved a
\* reference to the second record.
ForwardReferenceResolved ==
    /\ pc = "finalize"
    /\ Len(records) = 2
    /\ records[1] # records[2]
    /\ stack # <<>>
    /\ LET f == Head(stack)
       IN /\ IsRecordAdapter(f.adapter)
          /\ f.adapter.rec = module_adapters[1]
          /\ \E k \in 1..Len(f.value_fields) :
               /\ BaseOf(schema[records[1]][k]) = records[2]
               /\ f.value_fields[k].rec = module_adapters[2]

\* The types the call has to resolve: the value fields of its records, its
\* methods' request and response types, its constants' types.
TypesOfCall ==
    UNION {Range(schema[records[i]]) : i \in 1..Len(records)}
      \cup Range(MethodTypes(methods)) \cup Range(ConstantTypes(constants))

\* C6: init_module fails when a field, method or constant type names a record
\* id that is not in the registry: it returns normally only if every such id
\* is a key, and the KeyError that ends it names an id that is no key.
MissingReferenceFails ==
    /\ ReturnedNormally =>
          \A t \in TypesOfCall :
             BaseOf(t) = "prim" \/ BaseOf(t) \in DOMAIN record_id_to_adapter
    /\ (pc = "done" /\ result = "KeyError") =>
          missing \notin DOMAIN record_id_to_adapter

\* C6 witness: finalize of a record of the tuple raised on a field type that
\* names a record id which is no key of the registry.
MissingFieldReference ==
    /\ pc = "done"
    /\ result = "KeyError"
    /\ missing \in RecordIds
    /\ \E i \in 1..Len(module_adapters) :
         /\ record_id_to_adapter[module_adapters[i]].finalization_state = InProgress
         /\ missing \in RecordsNamed(schema[module_adapters[i]])

(***************************************************************************)
(* Part II: integers and struct                                            *)
(*                                                                         *)
(* A Python int is unbounded.  The model keeps an integer as a sign and a  *)
(* magnitude of MagLen bytes, least significant byte first, so that the    *)
(* 64-bit values of the wire format are exact.                             *)
(***************************************************************************)

\* Bound: the bytes of a magnitude (64-bit values need 8; one more keeps
\* sums exact).
MagLen == 9

Zeros(n) == [i \in 1..n |-> 0]

RECURSIVE NatBytes(_, _)
\* The n low-order bytes of the natural number k, least significant first.
NatBytes(k, n) == IF n = 0 THEN <<>> ELSE <<k % 256>> \o NatBytes(k \div 256, n - 1)

\* The integer of sign neg and magnitude mag; zero is not negative.
MkInt(neg, mag) == [neg |-> neg /\ mag # Zeros(Len(mag)), mag |-> mag]

\* The Python int written as the literal k in the source.
Num(k) == MkInt(k < 0, NatBytes(IF k < 0 THEN 0 - k ELSE k, MagLen))

\* 2**e
Pow2(e) == MkInt(FALSE, [i \in 1..MagLen |-> IF i = (e \div 8) + 1 THEN 2 ^ (e % 8) ELSE 0])

\* -n
Neg(n) == MkInt(~n.neg, n.mag)

MagLess(x, y) ==
    \E i \in 1..Len(x) :
       /\ x[i] < y[i]
       /\ \A j \in (i + 1)..Len(x) : x[j] = y[j]

\* a < b
Less(a, b) ==
    IF a.neg # b.neg THEN a.neg
    ELSE IF a.neg THEN MagLess(b.mag, a.mag)
    ELSE MagLess(a.mag, b.mag)

\* a <= b
LessEq(a, b) == a = b \/ Less(a, b)

RECURSIVE MagAdd(_, _, _)
\* x + y + carry on magnitudes of equal length (the carry out of the last
\* byte is dropped).
MagAdd(x, y, carry) ==
    IF x = <<>> THEN <<>>
    ELSE <<(x[1] + y[1] + carry) % 256>>
         \o MagAdd(Tail(x), Tail(y), (x[1] + y[1] + carry) \div 256)

RECURSIVE MagSub(_, _, _)
\* x - y - borrow on magnitudes of equal length, for x >= y.
MagSub(x, y, borrow) ==
    IF x = <<>> THEN <<>>
    ELSE <<(256 + x[1] - y[1] - borrow) % 256>>
         \o MagSub(Tail(x), Tail(y), IF x[1] - y[1] - borrow < 0 THEN 1 ELSE 0)

\* a + b
Add(a, b) ==
    IF a.neg = b.neg THEN MkInt(a.neg, MagAdd(a.mag, b.mag, 0))
    ELSE IF MagLess(a.mag, b.mag) THEN MkInt(b.neg, MagSub(b.mag, a.mag, 0))
    ELSE MkInt(a.neg, MagSub(a.mag, b.mag, 0))

\* a - b
Sub(a, b) == Add(a, Neg(b))

RECURSIVE MagInt(_)
MagInt(mag) == IF mag = <<>> THEN 0 ELSE mag[1] + 256 * MagInt(Tail(mag))

\* A small integer (a length, a tag, a byte) as a number of the model.
IntOf(n) == IF n.neg THEN 0 - MagInt(n.mag) ELSE MagInt(n.mag)

RECURSIVE MagMulAdd(_, _, _)
\* x * m + carry on a magnitude (the carry out of the last byte is dropped).
MagMulAdd(x, m, carry) ==
    IF x = <<>> THEN <<>>
    ELSE <<(x[1] * m + carry) % 256>>
         \o MagMulAdd(Tail(x), m, (x[1] * m + carry) \div 256)

RECURSIVE MagOfDigits(_, _)
\* The magnitude written in decimal digits, most significant first.
MagOfDigits(digits, acc) ==
    IF digits = <<>> THEN acc
    ELSE MagOfDigits(Tail(digits), MagMulAdd(acc, 10, Head(digits)))

\* The Python int written in the source as a decimal literal too long for
\* Num.
IntLiteral(neg, digits) == MkInt(neg, MagOfDigits(digits, Zeros(MagLen)))

RECURSIVE MagDivRem(_, _, _)
\* The i low-order bytes of the quotient of x by 10, and the remainder, rem
\* being what the bytes above i left.
MagDivRem(x, i, rem) ==
    IF i = 0 THEN [q |-> <<>>, r |-> rem]
    ELSE LET cur == rem * 256 + x[i]
             rest == MagDivRem(x, i - 1, cur % 10)
         IN [q |-> Append(rest.q, cur \div 10), r |-> rest.r]

RECURSIVE DigitsOf(_)
\* The decimal digits of a magnitude, most significant first; none for 0.
DigitsOf(mag) ==
    IF mag = Zeros(Len(mag)) THEN <<>>
    ELSE LET d == MagDivRem(mag, Len(mag), 0)
         IN Append(DigitsOf(d.q), d.r)

\* A str of decimal digits, with a leading "-" when neg.
Text(neg, digits) == [neg |-> neg, digits |-> digits]

\* str(i) and f"{i}" of an int
str(i) == Text(i.neg, IF i.mag = Zeros(MagLen) THEN <<0>> ELSE DigitsOf(i.mag))

\* n & 0xFF
And0xFF(n) == IF n.neg THEN (256 - n.mag[1]) % 256 ELSE n.mag[1]

\* struct: the size in bytes of a format, and whether it is signed.
Size(fmt) ==
    CASE fmt = "<B" -> 1
      [] fmt \in {"<H", "<h"} -> 2
      [] fmt \in {"<I", "<i"} -> 4
      [] fmt \in {"<Q", "<q"} -> 8

Signed(fmt) == fmt \in {"<h", "<i", "<q"}

\* struct.pack(fmt, n) does not raise struct.error: n is in the range of fmt.
FitsIn(fmt, n) ==
    /\ \A i \in (Size(fmt) + 1)..MagLen : n.mag[i] = 0
    /\ IF Signed(fmt)
       THEN \/ n.mag[Size(fmt)] < 128
            \/ /\ n.neg
               /\ n.mag[Size(fmt)] = 128
               /\ \A i \in 1..(Size(fmt) - 1) : n.mag[i] = 0
       ELSE ~n.neg

\* The two's complement of a byte string.
Complement(bytes) ==
    MagAdd([i \in 1..Len(bytes) |-> 255 - bytes[i]], Zeros(Len(bytes)), 1)

\* struct.pack(fmt, n), little-endian, for n in the range of fmt.
pack(fmt, n) ==
    IF n.neg THEN Complement(SubSeq(n.mag, 1, Size(fmt)))
    ELSE SubSeq(n.mag, 1, Size(fmt))

\* struct.unpack(fmt, bytes)[0]
unpack(fmt, bytes) ==
    IF Signed(fmt) /\ bytes[Size(fmt)] >= 128
    THEN MkInt(TRUE, Complement(bytes) \o Zeros(MagLen - Size(fmt)))
    ELSE MkInt(FALSE, bytes \o Zeros(MagLen - Size(fmt)))

(***************************************************************************)
(* Part II: the encoders (soia/_impl/binary.py, soia/_impl/primitives.py)  *)
(***************************************************************************)

\* The outcome of an encoder: the bytes it appended to the buffer and the
\* exception it raised ("" when it returned).
Written(buffer) == [error |-> "", buffer |-> buffer]

Failed(error, buffer) == [error |-> error, buffer |-> buffer]

\* buffer.append(n): a bytearray takes the integers of range(256).
append(buffer, n) ==
    IF ~n.neg /\ Less(n, Num(256)) THEN Written(Append(buffer, IntOf(n)))
    ELSE Failed("ValueError", buffer)

\* buffer.extend(struct.pack(fmt, n))
extend(buffer, fmt, n) ==
    IF FitsIn(fmt, n) THEN Written(buffer \o pack(fmt, n))
    ELSE Failed("struct.error", buffer)

\* binary.py lines 8-27
encode_int32(input_val) ==
    IF Less(input_val, Num(0))
    THEN IF LessEq(Num(-256), input_val)
         THEN Written(<<235, And0xFF(Add(input_val, Num(256)))>>)
         ELSE IF LessEq(Num(-65536), input_val)
         THEN extend(<<236>>, "<h", Add(input_val, Num(65536)))
         ELSE extend(<<237>>, "<i", input_val)
    ELSE IF Less(input_val, Num(232)) THEN append(<<>>, input_val)
    ELSE IF Less(input_val, Num(65536)) THEN extend(<<232>>, "<H", input_val)
    ELSE extend(<<233>>, "<I", input_val)

\* _Int64Adapter.encode, primitives.py lines 164-173
encode_int64(value) ==
    IF LessEq(Neg(Pow2(31)), value) /\ LessEq(value, Num(2147483647))
    THEN encode_int32(value)
    ELSE extend(<<238>>, "<q", value)

\* _Uint64Adapter.encode, primitives.py lines 208-223
encode_uint64(value) ==
    IF Less(value, Num(232)) THEN append(<<>>, value)
    ELSE IF Less(value, Num(65536)) THEN extend(<<232>>, "<H", value)
    ELSE IF Less(value, Pow2(32)) THEN extend(<<233>>, "<I", value)
    ELSE extend(<<234>>, "<Q", value)

\* binary.py line 40 without the upper limit: every length is packed.
LengthOverflows_Wrapping(length) == FALSE

\* binary.py line 40 (else branch, line 44): the length does not fit 32 bits.
LengthOverflows(length) == ~Less(length, Pow2(32))

\* binary.py lines 30-44
encode_length_prefix(length) ==
    IF Less(length, Num(232))
    THEN IF LessEq(Num(0), length) THEN append(<<>>, length)
         ELSE Failed("ValueError", <<>>)
    ELSE IF Less(length, Num(65536)) THEN extend(<<232>>, "<H", length)
    ELSE IF ~LengthOverflows(length)
    THEN extend(<<233>>, "<I", length)
    ELSE Failed("ValueError", <<>>)

\* A Timestamp, a str (known by its UTF-8 bytes) and a bytes object.
Timestamp(unix_millis) == [unix_millis |-> unix_millis]
Str(utf8) == [str |-> utf8]
Bytes(data) == [bytes |-> data]

\* _BoolAdapter.encode, primitives.py lines 62-67
encode_bool(value) == append(<<>>, IF value.bool THEN Num(1) ELSE Num(0))

\* value == 0.0 of a float: 0.0, or the bytes of 0.0 or -0.0.
IsZero(value) ==
    IF "float_of_int" \in DOMAIN value THEN value.float_of_int = Num(0)
    ELSE \A k \in 1..Len(value.float_of_bytes) :
            \/ value.float_of_bytes[k] = 0
            \/ k = Len(value.float_of_bytes) /\ value.float_of_bytes[k] = 128

\* _Float32Adapter.encode and _Float64Adapter.encode, primitives.py lines
\* 277-286 and 299-308; struct.pack gives a float that was unpacked from the
\* same format its bytes back.
encode_float(tag, value) ==
    IF IsZero(value) THEN append(<<>>, Num(0))
    ELSE Written(<<tag>> \o value.float_of_bytes)

\* primitives.py lines 321-323
_clamp_unix_millis(unix_millis) ==
    LET limit == IntLiteral(FALSE, <<8,6,4,0,0,0,0,0,0,0,0,0,0,0,0,0>>)
        least == IF Less(unix_millis, limit) THEN unix_millis ELSE limit
    IN IF Less(Neg(limit), least) THEN least ELSE Neg(limit)

\* _TimestampAdapter.encode, primitives.py lines 359-369
encode_timestamp(value) ==
    LET unix_millis == _clamp_unix_millis(value.unix_millis)
    IN IF unix_millis = Num(0) THEN append(<<>>, Num(0))
       ELSE extend(<<239>>, "<q", unix_millis)

\* _StringAdapter.encode and _BytesAdapter.encode, primitives.py lines
\* 410-422 and 474-485: the tag of the empty value, or the tag that follows
\* it, the length prefix and the bytes.
encode_blob(empty_tag, data) ==
    IF data = <<>> THEN append(<<>>, Num(empty_tag))
    ELSE LET prefix == encode_length_prefix(Num(Len(data)))
         IN IF prefix.error # "" THEN Failed(prefix.error, <<empty_tag + 1>>)
            ELSE Written(<<empty_tag + 1>> \o prefix.buffer \o data)

\* The encode method of the adapter of a primitive type.
encode(type, value) ==
    CASE type = "int32" -> encode_int32(value)
      [] type = "int64" -> encode_int64(value)
      [] type = "uint64" -> encode_uint64(value)
      [] type = "bool" -> encode_bool(value)
      [] type = "float32" -> encode_float(240, value)
      [] type = "float64" -> encode_float(241, value)
      [] type = "timestamp" -> encode_timestamp(value)
      [] type = "string" -> encode_blob(242, value.str)
      [] type = "bytes" -> encode_blob(244, value.bytes)

(***************************************************************************)
(* Part II: the decoders (soia/_impl/binary.py)                            *)
(***************************************************************************)

\* ByteStream: the buffer being read and the position of the next byte
\* (counted from 0).  read_wire() returns the byte at the position and
\* read(n) the next n bytes; both advance the position.
read_wire(stream, position) == stream[position + 1]

read(stream, position, n) == SubSeq(stream, position + 1, position + n)

TargetTypes == {"int32", "int64", "uint64"}

\* binary.py lines 59-67
target_min_int(target_type) ==
    CASE target_type = "int32" -> Neg(Pow2(31))
      [] target_type = "int64" -> Neg(Pow2(63))
      [] target_type = "uint64" -> Num(0)
      [] target_type \in {"bool", "float"} -> Num(0)

target_max_int(target_type) ==
    CASE target_type = "int32" -> Sub(Pow2(31), Num(1))
      [] target_type = "int64" -> Sub(Pow2(63), Num(1))
      [] target_type = "uint64" -> Sub(Pow2(64), Num(1))
      [] target_type \in {"bool", "float"} -> Num(0)

\* clamp without its last branch: a number above the maximum is returned as is.
clamp_NoUpperLimit(target_type, number) ==
    IF Less(number, target_min_int(target_type)) THEN target_min_int(target_type)
    ELSE number

\* binary.py lines 73-79
clamp(target_type, number) ==
    IF Less(number, target_min_int(target_type)) THEN target_min_int(target_type)
    ELSE IF LessEq(number, target_max_int(target_type)) THEN number
    ELSE target_max_int(target_type)

\* A bool, and the float an int or the bytes of a float token convert to.
Bool(b) == [bool |-> b]
FloatOfInt(n) == [float_of_int |-> n]
FloatOfBytes(fmt, bytes) == [float_of_bytes |-> bytes, fmt |-> fmt]

\* binary.py lines 81-96, for an integer token: "True if raw else False"
\* for a bool target, "raw + 0.0" for a float target; for an integer target
\* the value is returned raw when the token's range lies within the target's.
make_return_expr(target_type, raw, min_int, max_int) ==
    IF target_type = "bool" THEN Bool(raw # Num(0))
    ELSE IF target_type = "float" THEN FloatOfInt(raw)
    ELSE IF /\ LessEq(target_min_int(target_type), min_int)
            /\ LessEq(max_int, target_max_int(target_type))
    THEN raw
    ELSE clamp(target_type, raw)

\* The outcome of a decoder: the value returned, the position reached and the
\* exception raised ("" when it returned).
Decoded(value, position) == [error |-> "", value |-> value, position |-> position]

\* binary.py lines 91-92, 162-173: int(raw) of the float of a float token.
IntOfFloat(bytes) == [int_of_float |-> bytes]

\* binary.py lines 84-92, for a float token: the float is true unless it is
\* 0.0 or -0.0, it is returned as it is for a float target, and truncated
\* for an integer target.
make_float_return_expr(target_type, fmt, bytes) ==
    IF target_type = "bool"
    THEN Bool(\E k \in 1..Len(bytes) :
                 bytes[k] # 0 /\ (k < Len(bytes) \/ bytes[k] # 128))
    ELSE IF target_type = "float" THEN FloatOfBytes(fmt, bytes)
    ELSE IntOfFloat(bytes)

\* The function make_decode_number_fn builds for a target type (binary.py
\* lines 98-175).
decode_number(target_type, stream, position) ==
    LET wire == read_wire(stream, position)
        p == position + 1
        ret(fmt, offset, min_int, max_int) ==
            Decoded(make_return_expr(target_type,
                                     Sub(unpack(fmt, read(stream, p, Size(fmt))), offset),
                                     min_int, max_int),
                    p + Size(fmt))
    IN IF wire < 232
       THEN Decoded(make_return_expr(target_type, Num(wire), Num(0), Num(231)), p)
       ELSE IF wire <= 236
       THEN IF wire <= 234
            THEN IF wire = 232
                 THEN ret("<H", Num(0), Num(0), Num(65535))
                 ELSE IF wire = 233
                 THEN ret("<I", Num(0), Num(0), Sub(Pow2(32), Num(1)))
                 ELSE ret("<Q", Num(0), Num(0), Sub(Pow2(64), Num(1)))
            ELSE IF wire = 235
            THEN ret("<B", Num(256), Num(-256), Num(-1))
            ELSE ret("<H", Num(65536), Num(-65536), Num(-1))
       ELSE IF wire <= 239
       THEN IF wire = 237
            THEN ret("<i", Num(0), Neg(Pow2(31)), Sub(Pow2(31), Num(1)))
            ELSE ret("<q", Num(0), Neg(Pow2(63)), Sub(Pow2(63), Num(1)))
       ELSE IF wire = 240
       THEN Decoded(make_float_return_expr(target_type, "<f", read(stream, p, 4)), p + 4)
       ELSE IF wire = 241
       THEN Decoded(make_float_return_expr(target_type, "<d", read(stream, p, 8)), p + 8)
       ELSE [error |-> "ValueError", value |-> Num(0), position |-> p]

\* binary.py lines 184-186
decode_int64(stream, position) == decode_number("int64", stream, position)

\* Offset 4 (uint16 - 65536) taken for a one-byte token, as offset 3 is.
FixedWidth_Offset4AsUint8(wire_offset) ==
    IF wire_offset = 0 THEN 2
    ELSE IF wire_offset \in {1, 5, 8} THEN 4
    ELSE IF wire_offset \in {3, 4} THEN 1
    ELSE 8

\* binary.py lines 194-201: the bytes that follow the tag of a number token.
FixedWidth(wire_offset) ==
    IF wire_offset \in {0, 4} THEN 2
    ELSE IF wire_offset \in {1, 5, 8} THEN 4
    ELSE IF wire_offset = 3 THEN 1
    ELSE 8

RECURSIVE decode_unused(_, _)
RECURSIVE decode_unused_times(_, _, _)

\* binary.py lines 189-217: the position decode_unused leaves the stream at.
decode_unused(stream, position) ==
    LET wire_offset == read_wire(stream, position) - 232
        p == position + 1
        length == decode_int64(stream, p)
    IN IF wire_offset < 0 THEN p
       ELSE IF wire_offset <= 9 THEN p + FixedWidth(wire_offset)
       ELSE IF wire_offset \in {11, 13} THEN length.position + IntOf(length.value)
       ELSE IF wire_offset \in {15, 19, 20, 21, 22} THEN decode_unused(stream, p)
       ELSE IF wire_offset = 16 THEN decode_unused_times(stream, p, 2)
       ELSE IF wire_offset = 17 THEN decode_unused_times(stream, p, 3)
       ELSE IF wire_offset = 18
       THEN decode_unused_times(stream, length.position, IntOf(length.value))
       ELSE p

\* n calls of decode_unused in a row (lines 208-209, 211-213, 216-217).
decode_unused_times(stream, position, n) ==
    IF n <= 0 THEN position
    ELSE decode_unused_times(stream, decode_unused(stream, position), n - 1)

(***************************************************************************)
(* Part II: the values and tokens the codec is called with                 *)
(***************************************************************************)

\* Bound: how far from each anchor the sampled values go.
MaxDelta == 2

\* Bound: how deep arrays and enum values are nested in the tokens skipped.
MaxDepth == 2

\* The values the ranges of the tags and of the struct formats begin and end
\* at: 0, 232 and these powers of two.
AnchorExponents == {7, 8, 15, 16, 31, 32, 63, 64}

Anchors == {Num(0), Num(232)} \cup {Pow2(e) : e \in AnchorExponents}

\* The n-byte value whose bytes all differ (n, n - 1, ..., 1 from the least
\* significant one).
Mixed(n) == MkInt(FALSE, [i \in 1..MagLen |-> IF i <= n THEN n + 1 - i ELSE 0])

Magnitudes ==
    {Add(a, Num(d)) : a \in Anchors, d \in (0 - MaxDelta)..MaxDelta}
      \cup {Mixed(n) : n \in {2, 4, 8}}

\* The integers the encoders are given: around every anchor, of both signs.
Samples == Magnitudes \cup {Neg(m) : m \in Magnitudes}

\* v is a value of the integer type.
InRange(type, v) ==
    LessEq(target_min_int(type), v) /\ LessEq(v, target_max_int(type))

\* The struct format of the bytes that follow an integer tag, and the
\* offset its value is stored with (tags 235 and 236).
TokenFormat(tag) ==
    CASE tag = 232 -> "<H"
      [] tag = 233 -> "<I"
      [] tag = 234 -> "<Q"
      [] tag = 235 -> "<B"
      [] tag = 236 -> "<H"
      [] tag = 237 -> "<i"
      [] tag \in {238, 239} -> "<q"

TokenOffset(tag) ==
    CASE tag = 235 -> Num(256)
      [] tag = 236 -> Num(65536)
      [] OTHER -> Num(0)

\* The integer tokens that carry the value v: the literal tag when v < 232,
\* and every tag 232..239 whose range has v.
IntTokens(v) ==
    {<<IntOf(w)>> : w \in {x \in {v} : LessEq(Num(0), x) /\ Less(x, Num(232))}}
      \cup {<<tag>> \o pack(TokenFormat(tag), Add(v, TokenOffset(tag))) :
              tag \in {t \in 232..239 :
                         FitsIn(TokenFormat(t), Add(v, TokenOffset(t)))}}

\* n bytes of content; each would read as the tag of an array.
Payload(n) == [i \in 1..n |-> 250]

\* Number tokens of every tag 0..241.
NumberTokens ==
    UNION {IntTokens(v) : v \in {Num(5), Num(64250), Num(-250)}}
      \cup {<<240>> \o Payload(4), <<241>> \o Payload(8)}

StringLengths == {1, 3, 300}

\* _StringAdapter.encode and _BytesAdapter.encode (primitives.py lines
\* 410-421, 475-485): strings and bytes, empty and not.
BlobTokens ==
    {<<242>>, <<244>>}
      \cup {<<tag>> \o encode_length_prefix(Num(n)).buffer \o Payload(n) :
              tag \in {243, 245}, n \in StringLengths}

Leaves == NumberTokens \cup BlobTokens

\* The token array elements other than the varying one are.
Element == <<243, 1, 250>>

\* n copies of the token in a row.
Repeat(token, n) ==
    [i \in 1..(n * Len(token)) |-> token[((i - 1) % Len(token)) + 1]]

ArrayLengths == {4, 6}

\* The arrays (tags 246..250) and enum values (tags 251..254) with an element
\* of S.
Composite(S) ==
    {<<246>>}
      \cup {<<247>> \o t : t \in S}
      \cup {<<248>> \o t \o Element : t \in S}
      \cup {<<248>> \o Element \o t : t \in S}
      \cup {<<249>> \o Element \o t \o Element : t \in S}
      \cup {<<250>> \o encode_length_prefix(Num(n)).buffer \o t \o Repeat(Element, n - 1) :
              t \in S, n \in ArrayLengths}
      \cup {<<tag>> \o t : tag \in 251..254, t \in S}

RECURSIVE Tokens(_)
\* The well-formed tokens nested to the given depth.
Tokens(depth) ==
    IF depth = 0 THEN Leaves ELSE Leaves \cup Composite(Tokens(depth - 1))

\* The token that follows the one being read.
Following == <<231>>

(***************************************************************************)
(* Part II: the codec calls                                                *)
(***************************************************************************)

\* adapter.encode(value, buffer) of the int32, int64 or uint64 adapter, on an
\* empty buffer.
Encode ==
    /\ c_pc = "idle"
    /\ \E type \in TargetTypes, value \in Samples :
         /\ InRange(type, value)
         /\ c_op' = "encode"
         /\ c_target' = type
         /\ c_in' = value
         /\ c_stream' = encode(type, value).buffer
         /\ c_err' = encode(type, value).error
    /\ c_pos' = 0
    /\ c_pc' = "written"
    /\ UNCHANGED <<c_out, nonCodecVars>>

\* A stream that holds an integer token carrying some value, and the token
\* that follows it, is about to be read as some integer type.
WriteToken ==
    /\ c_pc = "idle"
    /\ \E type \in TargetTypes, value \in Samples :
         \E token \in IntTokens(value) :
            /\ c_op' = "token"
            /\ c_target' = type
            /\ c_in' = value
            /\ c_stream' = token \o Following
    /\ c_pos' = 0
    /\ c_pc' = "written"
    /\ UNCHANGED <<c_out, c_err, nonCodecVars>>

\* adapter.decode(stream) of the int32, int64 or uint64 adapter.
Decode ==
    /\ c_pc = "written"
    /\ c_op \in {"encode", "token"}
    /\ c_err = ""
    /\ LET r == decode_number(c_target, c_stream, c_pos)
       IN /\ c_out' = r.value
          /\ c_pos' = r.position
          /\ c_err' = r.error
    /\ c_pc' = "read"
    /\ UNCHANGED <<c_op, c_in, c_target, c_stream, nonCodecVars>>

\* encode_length_prefix(length, buffer) on an empty buffer.
EncodeLengthPrefix ==
    /\ c_pc = "idle"
    /\ \E length \in Samples :
         /\ c_in' = length
         /\ c_stream' = encode_length_prefix(length).buffer
         /\ c_err' = encode_length_prefix(length).error
    /\ c_op' = "length"
    /\ c_target' = "int64"
    /\ c_pos' = 0
    /\ c_pc' = "written"
    /\ UNCHANGED <<c_out, nonCodecVars>>

\* decode_int64(stream) on the length prefix written.
DecodeLength ==
    /\ c_pc = "written"
    /\ c_op = "length"
    /\ c_err = ""
    /\ LET r == decode_int64(c_stream, c_pos)
       IN /\ c_out' = r.value
          /\ c_pos' = r.position
          /\ c_err' = r.error
    /\ c_pc' = "read"
    /\ UNCHANGED <<c_op, c_in, c_target, c_stream, nonCodecVars>>

\* A stream is positioned at a well-formed token, which another follows.
WriteAnyToken ==
    /\ c_pc = "idle"
    /\ \E token \in Tokens(MaxDepth), lead \in {<<>>, <<250>>} :
         /\ c_in' = token
         /\ c_stream' = lead \o token \o Following
         /\ c_pos' = Len(lead)
    /\ c_op' = "unused"
    /\ c_pc' = "written"
    /\ UNCHANGED <<c_target, c_out, c_err, nonCodecVars>>

\* decode_unused(stream)
DecodeUnused ==
    /\ c_pc = "written"
    /\ c_op = "unused"
    /\ c_pos' = decode_unused(c_stream, c_pos)
    /\ c_pc' = "read"
    /\ UNCHANGED <<c_op, c_in, c_target, c_stream, c_out, c_err, nonCodecVars>>

InitCodec ==
    /\ schema = [id \in RecordIds |-> <<>>]
    /\ RegistryEmpty
    /\ CodecIdle
    /\ KeyedIdle
    /\ ArraysIdle
    /\ CachesIdle
    /\ FrozenIdle
    /\ EnumsIdle
    /\ StructsIdle

NextCodec ==
    \/ Encode
    \/ WriteToken
    \/ Decode
    \/ EncodeLengthPrefix
    \/ DecodeLength
    \/ WriteAnyToken
    \/ DecodeUnused

SpecCodec == InitCodec /\ [][NextCodec]_vars

(***************************************************************************)
(* Part II: properties                                                     *)
(***************************************************************************)

\* C7: integer binary round trip: for every value of the int32 (int64,
\* uint64) range, the encoder of the type returns, and the decoder of the type
\* applied to the bytes written returns the value and consumes exactly those
\* bytes.
IntegerRoundTrip ==
    c_op = "encode" =>
        /\ c_err = ""
        /\ c_pc = "read" => (c_out = c_in /\ c_pos = Len(c_stream))

MinOf(a, b) == IF Less(b, a) THEN b ELSE a

MaxOf(a, b) == IF Less(a, b) THEN b ELSE a

\* C8: the decoder of an integer type T, reading an integer token (tags
\* 0..239) that carries the value v, does not raise and returns
\* min(max(v, T.min), T.max).
DecoderClamps ==
    (c_op = "token" /\ c_pc = "read") =>
        /\ c_err = ""
        /\ c_out = MinOf(MaxOf(c_in, target_min_int(c_target)),
                         target_max_int(c_target))

\* C8 witness: the int32 decoder has read a uint64 token (tag 234) whose
\* value is above the int32 range.
ClampedToken ==
    /\ c_op = "token"
    /\ c_pc = "read"
    /\ c_target = "int32"
    /\ c_stream[1] = 234
    /\ Less(target_max_int("int32"), c_in)

\* C9: decode_unused, called at the first byte of a well-formed token,
\* leaves the position right after the last byte of the token: the bytes it
\* went over are the token, and the following token is the next one read.
DecodeUnusedConsumesOneToken ==
    (c_op = "unused" /\ c_pc = "read") =>
        /\ c_err = ""
        /\ c_pos + Len(Following) = Len(c_stream)
        /\ c_pos >= Len(c_in)
        /\ SubSeq(c_stream, c_pos - Len(c_in) + 1, c_pos) = c_in
        /\ read_wire(c_stream, c_pos) = Following[1]

\* C9 witness: decode_unused went over an array of length N (tag 250) that
\* holds an array of two elements (tag 248), and did not start at position 0.
NestedArraySkipped ==
    /\ c_op = "unused"
    /\ c_pc = "read"
    /\ c_pos > Len(c_in)
    /\ Len(c_in) > 3
    /\ c_in[1] = 250
    /\ c_in[3] = 248

\* 256 * n
Times256(n) == MkInt(n.neg, <<0>> \o SubSeq(n.mag, 1, MagLen - 1))

RECURSIVE LittleEndian(_)
\* The unsigned integer a byte string is, least significant byte first.
LittleEndian(bytes) ==
    IF bytes = <<>> THEN Num(0)
    ELSE Add(Num(bytes[1]), Times256(LittleEndian(Tail(bytes))))

\* C10: encode_length_prefix(N) writes the byte N when 0 <= N < 232, 232 and
\* N as a little-endian uint16 when 232 <= N < 65536, 233 and N as a
\* little-endian uint32 when 65536 <= N < 2^32, and fails with ValueError
\* (length overflow) when N < 0 or N >= 2^32; decode_int64 on the bytes
\* written returns N.
LengthPrefixLayout ==
    c_op = "length" =>
        IF Less(c_in, Num(0)) \/ LessEq(Pow2(32), c_in)
        THEN c_err = "ValueError" /\ c_pc = "written" /\ c_stream = <<>>
        ELSE /\ c_err = ""
             /\ IF Less(c_in, Num(232)) THEN c_stream = <<IntOf(c_in)>>
                ELSE IF Less(c_in, Num(65536))
                THEN c_stream = <<232, IntOf(c_in) % 256, IntOf(c_in) \div 256>>
                ELSE /\ Len(c_stream) = 5
                     /\ c_stream[1] = 233
                     /\ LittleEndian(Tail(c_stream)) = c_in
             /\ c_pc = "read" => (c_out = c_in /\ c_pos = Len(c_stream))

\* C10 witness: decode_int64 has read back a length written as tag 233 and
\* four bytes that are not all the same.
LengthPrefixReadBack ==
    /\ c_op = "length"
    /\ c_pc = "read"
    /\ c_stream[1] = 233
    /\ c_stream[2] # c_stream[5]
    /\ c_out = c_in

(***************************************************************************)
(* Part III: the calls of find and find_or_default                         *)
(***************************************************************************)

\* A thread calls find(key) or find_or_default(key) on the array.
CallFind(t) ==
    /\ k_pc[t] = "idle"
    /\ \E method \in {"find", "find_or_default"}, key \in ArgKeys :
         k_call' = [k_call EXCEPT ![t] = [method |-> method, key |-> key]]
    /\ k_pc' = [k_pc EXCEPT ![t] = "line 148"]
    /\ k_local' = [k_local EXCEPT ![t] = Absent]
    /\ UNCHANGED <<k_threads, k_items, k_key_to_item, k_builds, k_ret,
                   nonKeyedVars>>

\* Reading self._key_to_item raises AttributeError at every call.
HasAttribute_Never(attribute) == FALSE

\* Reading self._key_to_item (line 148) raises AttributeError unless the
\* attribute is set.
HasAttribute(attribute) == attribute.set

\* Lines 147-149: key_to_item = self._key_to_item, or AttributeError.
FindTry(t) ==
    /\ k_pc[t] = "line 148"
    /\ IF HasAttribute(k_key_to_item)
       THEN /\ k_local' = [k_local EXCEPT ![t] = k_key_to_item]
            /\ k_pc' = [k_pc EXCEPT ![t] = "line 152"]
       ELSE /\ k_pc' = [k_pc EXCEPT ![t] = "line 150"]
            /\ UNCHANGED k_local
    /\ UNCHANGED <<k_threads, k_items, k_key_to_item, k_builds, k_call, k_ret,
                   nonKeyedVars>>

\* Line 150 storing the new dict in the attribute while it is still empty.
FindBuild_PublishFirst(t) ==
    /\ k_pc[t] = "line 150"
    /\ k_builds' = k_builds + 1
    /\ k_local' = [k_local EXCEPT ![t] = Dict(k_builds + 1, key_items(k_items))]
    /\ k_key_to_item' = Dict(k_builds + 1, <<>>)
    /\ k_pc' = [k_pc EXCEPT ![t] = "line 151"]
    /\ UNCHANGED <<k_threads, k_items, k_call, k_ret, nonKeyedVars>>

\* Line 150: key_to_item = key_items(self), a new dict.
FindBuild(t) ==
    /\ k_pc[t] = "line 150"
    /\ k_builds' = k_builds + 1
    /\ k_local' = [k_local EXCEPT ![t] = Dict(k_builds + 1, key_items(k_items))]
    /\ k_pc' = [k_pc EXCEPT ![t] = "line 151"]
    /\ UNCHANGED <<k_threads, k_items, k_key_to_item, k_call, k_ret, nonKeyedVars>>

\* Line 151: object.__setattr__(self, "_key_to_item", key_to_item)
FindSet(t) ==
    /\ k_pc[t] = "line 151"
    /\ k_key_to_item' = k_local[t]
    /\ k_pc' = [k_pc EXCEPT ![t] = "line 152"]
    /\ UNCHANGED <<k_threads, k_items, k_builds, k_call, k_local, k_ret,
                   nonKeyedVars>>

\* Line 152: return key_to_item.get(key); and line 155 when the call is
\* find_or_default.
FindReturn(t) ==
    /\ k_pc[t] = "line 152"
    /\ LET found == dict_get(k_local[t].map, k_call[t].key)
       IN k_ret' = [k_ret EXCEPT ![t] =
                      [done |-> TRUE,
                       value |-> IF k_call[t].method = "find" THEN found
                                 ELSE or_default(found)]]
    /\ k_pc' = [k_pc EXCEPT ![t] = "idle"]
    /\ UNCHANGED <<k_threads, k_items, k_key_to_item, k_builds, k_call, k_local,
                   nonKeyedVars>>

\* A frozen keyed array of up to MaxItems elements, and the threads that
\* use it.
KeyedArray(threads) ==
    /\ k_threads = threads
    /\ k_items \in SeqsUpTo(Keys, MaxItems)
    /\ k_key_to_item = Absent
    /\ k_builds = 0
    /\ k_pc = [t \in threads |-> "idle"]
    /\ k_call = [t \in threads |-> NoCall]
    /\ k_local = [t \in threads |-> Absent]
    /\ k_ret = [t \in threads |-> NoReturn]

NextKeyed ==
    \/ \E t \in k_threads : CallFind(t)
    \/ \E t \in k_threads : FindTry(t)
    \/ \E t \in k_threads : FindBuild(t)
    \/ \E t \in k_threads : FindSet(t)
    \/ \E t \in k_threads : FindReturn(t)

\* One thread uses the array.
InitKeyedSequential ==
    /\ schema = [id \in RecordIds |-> <<>>]
    /\ RegistryEmpty
    /\ CodecIdle
    /\ ArraysIdle
    /\ CachesIdle
    /\ FrozenIdle
    /\ EnumsIdle
    /\ StructsIdle
    /\ KeyedArray({1})

SpecKeyedSequential == InitKeyedSequential /\ [][NextKeyed]_vars

\* Two threads use the array.
InitKeyed ==
    /\ schema = [id \in RecordIds |-> <<>>]
    /\ RegistryEmpty
    /\ CodecIdle
    /\ ArraysIdle
    /\ CachesIdle
    /\ FrozenIdle
    /\ EnumsIdle
    /\ StructsIdle
    /\ KeyedArray({1, 2})

SpecKeyed == InitKeyed /\ [][NextKeyed]_vars

(***************************************************************************)
(* Part III: properties of find and find_or_default                        *)
(***************************************************************************)

\* The indexes of the elements whose key is the given key.
IndexesOf(key) == {i \in 1..Len(k_items) : k_items[i] = key}

\* The greatest of a non-empty set of indexes.
Greatest(indexes) == CHOOSE i \in indexes : \A j \in indexes : j <= i

\* Thread t has returned from a call of the method.
ReturnedFrom(t, method) ==
    /\ k_pc[t] = "idle"
    /\ k_ret[t].done
    /\ k_call[t].method = method

\* C11: find(k), for a key k that at least one element carries, returns the
\* element of greatest index among the elements whose key is k.
FindReturnsLast ==
    \A t \in k_threads :
       ReturnedFrom(t, "find") /\ IndexesOf(k_call[t].key) # {}
          => k_ret[t].value = Greatest(IndexesOf(k_call[t].key))

\* find has returned the last of several elements that carry the key.
FoundAmongDuplicates ==
    \E t \in k_threads :
       /\ ReturnedFrom(t, "find")
       /\ Cardinality(IndexesOf(k_call[t].key)) >= 2
       /\ k_ret[t].value = Len(k_items)
       /\ k_items[1] = k_call[t].key

\* The map from each key of the array to the last element that carries it.
ExpectedMap ==
    [key \in {k_items[i] : i \in 1..Len(k_items)} |-> Greatest(IndexesOf(key))]

\* What find(key) returns when it is the only call made on the array.
SequentialFind(key) ==
    IF key \in DOMAIN ExpectedMap THEN ExpectedMap[key] ELSE None

\* C12: when no element has key k, find(k) returns None and
\* find_or_default(k) returns the default of the item adapter; when some
\* element has key k, find_or_default(k) returns the element find(k) returns.
FindOrDefault ==
    \A t \in k_threads :
       LET key == k_call[t].key
       IN /\ ReturnedFrom(t, "find") /\ IndexesOf(key) = {}
               => k_ret[t].value = None
          /\ ReturnedFrom(t, "find_or_default") /\ IndexesOf(key) = {}
               => k_ret[t].value = default
          /\ ReturnedFrom(t, "find_or_default") /\ IndexesOf(key) # {}
               => /\ k_ret[t].value = SequentialFind(key)
                  /\ \A u \in k_threads :
                        ReturnedFrom(u, "find") /\ k_call[u].key = key
                           => k_ret[u].value = k_ret[t].value

\* find and find_or_default have both returned for a key no element has,
\* in an array that is not empty.
DefaultReturned ==
    /\ k_items # <<>>
    /\ ReturnedFrom(1, "find_or_default")
    /\ ReturnedFrom(2, "find")
    /\ k_call[1].key = k_call[2].key
    /\ IndexesOf(k_call[1].key) = {}
    /\ k_ret[1].value = default
    /\ k_ret[2].value = None

ConcurrentFindIsSequential ==
    /\ \A t \in k_threads :
          ReturnedFrom(t, "find")
             => k_ret[t].value = SequentialFind(k_call[t].key)
    /\ k_key_to_item.set => k_key_to_item.map = ExpectedMap
    /\ \A t \in k_threads :
          k_local[t].set => k_local[t].map = ExpectedMap

\* Both threads found the map missing, each built one, and both calls
\* returned an element; the second map replaced the first in the cache.
BothThreadsBuilt ==
    /\ k_builds = 2
    /\ k_local[1].id # k_local[2].id
    /\ k_key_to_item.set
    /\ ReturnedFrom(1, "find") /\ k_ret[1].value # None
    /\ ReturnedFrom(2, "find") /\ k_ret[2].value # None
    /\ k_call[1].key # k_call[2].key

(***************************************************************************)
(* Part IV: the operations that produce arrays                             *)
(***************************************************************************)

\* The iterables a caller hands over: lists, and arrays made earlier.
Iterables ==
    {List(items) : items \in SeqsUpTo(ArrayItems, MaxArrayLen)}
       \cup {Listuple(id) : id \in 1..Len(a_heap)}

\* The outcome of an operation becomes the state.
Produce(op, outcome) ==
    /\ Len(outcome.heap) <= MaxObjects
    /\ a_heap' = outcome.heap
    /\ a_op' = op
    /\ a_value' = outcome.value
    /\ a_err' = outcome.error
    /\ UNCHANGED nonArrayVars

\* to_frozen of the array adapter applied to an iterable.
ToFrozen ==
    \E arg \in Iterables : Produce("to_frozen", to_frozen_expr(a_heap, arg))

\* The constructor of a struct with an array field: the argument passes
\* through to_frozen of the field's type.
StructConstructor ==
    \E arg \in Iterables : Produce("constructor", to_frozen_expr(a_heap, arg))

\* struct.to_mutable().to_frozen() for a frozen struct whose array field
\* holds the instance id: the mutable shares the reference and to_frozen
\* passes it through to_frozen of the field's type.
ToMutableToFrozen ==
    \E id \in 1..Len(a_heap) :
       Produce("to_mutable().to_frozen()", to_frozen_expr(a_heap, Listuple(id)))

\* from_json of the array adapter applied to a JSON list.
FromJson ==
    \E json \in SeqsUpTo(ArrayItems, MaxArrayLen) :
       Produce("from_json", from_json_expr(a_heap, json))

NextArrays ==
    \/ ToFrozen
    \/ StructConstructor
    \/ ToMutableToFrozen
    \/ FromJson

\* _ArrayAdapter.__init__ has run: the empty instance exists.
InitArrays ==
    /\ schema = [id \in RecordIds |-> <<>>]
    /\ RegistryEmpty
    /\ CodecIdle
    /\ KeyedIdle
    /\ CachesIdle
    /\ FrozenIdle
    /\ EnumsIdle
    /\ StructsIdle
    /\ a_heap = <<<<>>>>
    /\ a_op = ""
    /\ a_value = 0
    /\ a_err = ""

SpecArrays == InitArrays /\ [][NextArrays]_vars

\* C15: every empty array that an operation of the adapter produces is the
\* shared empty instance of the adapter.
EmptyArrayIsShared ==
    a_op # "" /\ a_err = "" /\ ~NotEmpty(a_heap[a_value])
       => a_value = empty_listuple

(***************************************************************************)
(* Part V: get_array_adapter and get_optional_adapter                      *)
(***************************************************************************)

\* get_array_adapter(item_adapter, key_attributes), arrays.py lines 12-23
GetArrayAdapter ==
    /\ g_constructed < Cardinality(BaseAdapters) + MaxCalls
    /\ \E item_adapter \in Held, key_attributes \in KeyAttributes :
         LET array_adapter == g_constructed + 1
             outer == setdefault(g_item_to_array_adapters, item_adapter,
                                 EmptyDict)
             inner == setdefault(outer.value, key_attributes, array_adapter)
         IN /\ g_item_to_array_adapters' =
                  [outer.dict EXCEPT ![item_adapter] = inner.dict]
            /\ g_constructed' = array_adapter
            /\ g_calls' = g_calls \cup
                  {Call("get_array_adapter", item_adapter, key_attributes,
                        array_adapter, inner.value)}
    /\ UNCHANGED <<g_other_to_optional, nonCacheVars>>

\* get_optional_adapter(other_adapter), optionals.py lines 14-17
GetOptionalAdapter ==
    /\ g_constructed < Cardinality(BaseAdapters) + MaxCalls
    /\ \E other_adapter \in Held :
         LET optional_adapter == g_constructed + 1
             entry == setdefault(g_other_to_optional, other_adapter,
                                 optional_adapter)
         IN /\ g_other_to_optional' = entry.dict
            /\ g_constructed' = optional_adapter
            /\ g_calls' = g_calls \cup
                  {Call("get_optional_adapter", other_adapter, <<>>,
                        optional_adapter, entry.value)}
    /\ UNCHANGED <<g_item_to_array_adapters, nonCacheVars>>

NextCaches ==
    \/ GetArrayAdapter
    \/ GetOptionalAdapter

\* The modules are imported: the caches are empty and the base adapters exist.
InitCaches ==
    /\ schema = [id \in RecordIds |-> <<>>]
    /\ RegistryEmpty
    /\ CodecIdle
    /\ KeyedIdle
    /\ ArraysIdle
    /\ FrozenIdle
    /\ EnumsIdle
    /\ StructsIdle
    /\ g_item_to_array_adapters = EmptyDict
    /\ g_other_to_optional = EmptyDict
    /\ g_constructed = Cardinality(BaseAdapters)
    /\ g_calls = {}

SpecCaches == InitCaches /\ [][NextCaches]_vars

\* Every entry of the two caches is still there, unchanged, after the step.
EntriesKept ==
    /\ \A a \in DOMAIN g_item_to_array_adapters :
          /\ a \in DOMAIN g_item_to_array_adapters'
          /\ \A key \in DOMAIN g_item_to_array_adapters[a] :
                /\ key \in DOMAIN g_item_to_array_adapters'[a]
                /\ g_item_to_array_adapters'[a][key] =
                      g_item_to_array_adapters[a][key]
    /\ \A a \in DOMAIN g_other_to_optional :
          /\ a \in DOMAIN g_other_to_optional'
          /\ g_other_to_optional'[a] = g_other_to_optional[a]

\* C16: all calls of get_array_adapter with the same item adapter and key
\* attributes returned the identical adapter, all calls of
\* get_optional_adapter with the same inner adapter returned the identical
\* adapter, and no step replaces or removes an entry of either cache.
AdapterSharingIsWriteOnce ==
    /\ [](\A c, d \in g_calls :
             /\ c.fn = d.fn
             /\ c.adapter = d.adapter
             /\ c.key_attributes = d.key_attributes
             => c.returned = d.returned)
    /\ [][EntriesKept]_vars

\* A repeated call of each function returned the adapter of the earlier call
\* and not the one it had constructed; the array adapter wraps an adapter
\* that itself came from a cache.
RepeatedCallsShared ==
    /\ \E c \in g_calls :
          /\ c.fn = "get_array_adapter"
          /\ c.returned # c.constructed
          /\ c.adapter \notin BaseAdapters
    /\ \E c \in g_calls :
          /\ c.fn = "get_optional_adapter"
          /\ c.returned # c.constructed

(***************************************************************************)
(* Part VI: attempts to mutate frozen objects                              *)
(***************************************************************************)

\* The outcome of an attempt on the object of a kind becomes the state.
Attempt(op, kind, name, outcome) ==
    /\ f_objects' = [f_objects EXCEPT ![kind] = outcome.obj]
    /\ f_op' = op
    /\ f_target' = <<kind, name>>
    /\ f_err' = outcome.error
    /\ f_raised' = IF outcome.error = "FrozenInstanceError"
                   THEN f_raised \cup {<<op, kind>>} ELSE f_raised
    /\ UNCHANGED nonFrozenVars

\* obj.name = value
SetAttribute ==
    \E kind \in FrozenKinds :
       \E name \in AttributeNames(kind), value \in AssignedValues :
          Attempt("setattr", kind, name,
                  __setattr__(f_objects[kind], name, value))

\* del obj.name
DeleteAttribute ==
    \E kind \in FrozenKinds :
       \E name \in AttributeNames(kind) :
          Attempt("delattr", kind, name, __delattr__(f_objects[kind], name))

\* find on the keyed array, which sets _key_to_item through
\* object.__setattr__ (arrays.py line 151) when it is not set.
FindOnKeyedArray ==
    /\ "_key_to_item" \notin DOMAIN f_objects["keyed array"]
    /\ Attempt("find", "keyed array", "_key_to_item",
               object__setattr__(f_objects["keyed array"], "_key_to_item",
                                 "{a: 0, b: 1}"))

NextFrozen ==
    \/ SetAttribute
    \/ DeleteAttribute
    \/ FindOnKeyedArray

InitFrozen ==
    /\ schema = [id \in RecordIds |-> <<>>]
    /\ RegistryEmpty
    /\ CodecIdle
    /\ KeyedIdle
    /\ ArraysIdle
    /\ CachesIdle
    /\ EnumsIdle
    /\ StructsIdle
    /\ f_objects = NewObjects
    /\ f_op = ""
    /\ f_target = <<>>
    /\ f_err = ""
    /\ f_raised = {}

SpecFrozen == InitFrozen /\ [][NextFrozen]_vars

\* C17: an attempt to set or delete an attribute of a frozen struct, an enum
\* instance, a keyed array or a Serializer raises FrozenInstanceError and
\* leaves every attribute of the object as it was.
FrozenMutationRaises ==
    /\ [][f_op' \in {"setattr", "delattr"}
             => f_err' = "FrozenInstanceError" /\ f_objects' = f_objects]_vars
    /\ [](f_objects["struct"] = FrozenStruct
             /\ f_objects["enum"] = EnumInstance
             /\ f_objects["Serializer"] = NewSerializer)

\* Setting and deleting have been attempted on each of the four objects,
\* every attempt raised, and point.x still reads 1.5.
EveryMutationRaised ==
    /\ f_raised = {"setattr", "delattr"} \X FrozenKinds
    /\ f_op = "setattr"
    /\ f_target = <<"struct", "x">>
    /\ f_err = "FrozenInstanceError"
    /\ f_objects["struct"].x = "1.5"

(***************************************************************************)
(* Part VII: to_json, from_json and == on enum values                      *)
(***************************************************************************)

\* The numbers tried as enum numbers: live, removed and unrecognized ones.
Numbers == {0, 1, 2, 4, 10, 100, 101, 102}

\* The JSON handed to from_json as it comes from a peer.
GivenJson ==
    {JInt(n) : n \in Numbers}
       \cup {JList(<<JInt(n), p>>) : n \in Numbers, p \in {JBool(TRUE), JStr("E")}}
       \cup {JStr(s) : s \in {"?", "OK", "RED", "zzz"}}
       \cup {JDict(<<k, "value">>, <<JStr(s), JStr("E")>>) :
                k \in {"kind", "name"}, s \in {"error", "string", "zzz"}}
       \cup {JDict(<<"name">>, <<JStr("error")>>), JNull}

\* serializer.to_json(x, readable) for a value x of an enum.
EnumToJson ==
    /\ e_pc \in {"idle", "decoded", "reencoded", "compared"}
    /\ \E spec \in Enums :
         \E x \in Instances(spec), readable \in BOOLEAN :
            /\ e_enum' = spec
            /\ e_x' = x
            /\ e_readable' = readable
            /\ e_json' = to_json(x, readable)
    /\ e_pc' = "encoded"
    /\ e_op' = "to_json"
    /\ e_back' = Result("", Ellipsis)
    /\ e_again' = JNull
    /\ e_other' = Ellipsis
    /\ e_eq' = FALSE
    /\ UNCHANGED nonEnumVars

\* JSON arrives from elsewhere.
ReceiveJson ==
    /\ e_pc \in {"idle", "decoded", "reencoded", "compared"}
    /\ \E spec \in Enums, json \in GivenJson :
         /\ e_enum' = spec
         /\ e_json' = json
    /\ e_pc' = "encoded"
    /\ e_op' = "given"
    /\ e_x' = Ellipsis
    /\ e_readable' = FALSE
    /\ e_back' = Result("", Ellipsis)
    /\ e_again' = JNull
    /\ e_other' = Ellipsis
    /\ e_eq' = FALSE
    /\ UNCHANGED nonEnumVars

\* serializer.from_json(json)
EnumFromJson ==
    /\ e_pc = "encoded"
    /\ e_back' = from_json(e_enum, e_json)
    /\ e_pc' = "decoded"
    /\ UNCHANGED <<e_op, e_enum, e_x, e_readable, e_json, e_again, e_other, e_eq,
                   nonEnumVars>>

\* serializer.to_json(value) of the value from_json returned, when it is an
\* enum instance (the Ellipsis object has no attribute _dj).
Reencode ==
    /\ e_pc = "decoded"
    /\ e_back.error = ""
    /\ e_back.value.cls = "enum"
    /\ e_again' = to_json(e_back.value, FALSE)
    /\ e_pc' = "reencoded"
    /\ UNCHANGED <<e_op, e_enum, e_x, e_readable, e_json, e_back, e_other, e_eq,
                   nonEnumVars>>

\* The values an enum instance is compared with: the instances of the enums
\* and values that are no enum instances.
Comparands ==
    UNION {Instances(spec) : spec \in Enums}
       \cup {Plain(JInt(0)), Plain(JStr("OK")), Plain(JNull), Ellipsis}

\* x == other for an enum instance x.
Compare ==
    /\ e_pc \in {"idle", "decoded", "reencoded", "compared"}
    /\ \E spec \in Enums :
         \E x \in Instances(spec), other \in Comparands :
            /\ e_enum' = spec
            /\ e_x' = x
            /\ e_other' = other
            /\ e_eq' = Equal(x, other)
    /\ e_pc' = "compared"
    /\ e_op' = "=="
    /\ e_readable' = FALSE
    /\ e_json' = JNull
    /\ e_back' = Result("", Ellipsis)
    /\ e_again' = JNull
    /\ UNCHANGED nonEnumVars

NextEnums ==
    \/ EnumToJson
    \/ ReceiveJson
    \/ EnumFromJson
    \/ Reencode
    \/ Compare

InitEnums ==
    /\ schema = [id \in RecordIds |-> <<>>]
    /\ RegistryEmpty
    /\ CodecIdle
    /\ KeyedIdle
    /\ ArraysIdle
    /\ CachesIdle
    /\ FrozenIdle
    /\ EnumsIdle
    /\ StructsIdle

SpecEnums == InitEnums /\ [][NextEnums]_vars

\* C18: from_json(to_json(x, readable)) == x for every value x of an enum
\* (UNKNOWN, a constant, a wrapped value) and both values of readable.
EnumJsonRoundTrip ==
    e_pc = "decoded" /\ e_op = "to_json"
       => e_back.error = "" /\ Equal(e_back.value, e_x)

\* The JSON at hand is an integer n or a list [n, payload] whose n is not
\* the number of a constant or value field of the enum.
NotLive ==
    /\ e_op = "given"
    /\ e_json.t \in {"int", "list"}
    /\ LET n == IF e_json.t = "int" THEN e_json.n ELSE e_json.items[1].n
       IN /\ n # 0
          /\ \A i \in 1..Len(e_enum.constant_fields) :
                e_enum.constant_fields[i].number # n
          /\ \A i \in 1..Len(e_enum.value_fields) :
                e_enum.value_fields[i].number # n

\* The dense JSON that re-encoding the decoded UNKNOWN is to give: 0 for a
\* removed number, the JSON that was decoded for an unrecognized one.
PreservedJson ==
    LET n == IF e_json.t = "int" THEN e_json.n ELSE e_json.items[1].n
    IN IF n \in e_enum.removed_numbers THEN JInt(0) ELSE e_json

\* C19: from_json of an integer n or a list [n, payload] whose n is not a
\* live variant gives a value equal to UNKNOWN, and its dense JSON is n or
\* [n, payload] when n is unrecognized and 0 when n is a removed number.
UnknownIsPreserved ==
    /\ e_pc \in {"decoded", "reencoded"} /\ NotLive
          => e_back.error = "" /\ Equal(e_back.value, UNKNOWN(e_enum))
    /\ e_pc = "reencoded" /\ NotLive => e_again = PreservedJson

\* C20: two instances of the same enum record are equal if and only if
\* their kinds are equal and their payloads are equal, and an enum instance
\* does not equal a value that is no enum instance.
EnumEquality ==
    e_pc = "compared"
       => /\ e_other.cls = "enum" /\ e_other.record = e_x.record
               => (e_eq <=> e_x.kind = e_other.kind /\ e_x.value = e_other.value)
          /\ e_other.cls # "enum" => ~e_eq

\* Two wrapped values of the same kind were compared: one pair with equal
\* payloads, found equal, or one with different payloads, found different.
WrappedValuesCompared ==
    /\ e_pc = "compared"
    /\ e_x.hv /\ e_other.hv
    /\ e_x.record = e_other.record
    /\ e_x.kind = e_other.kind
    /\ e_x.value # e_other.value
    /\ ~e_eq


(***************************************************************************)
(* Part I: what a call leaves behind                                       *)
(***************************************************************************)

\* C23: after init_module returns, the generated class of every record of the
\* module is in globals under its class name when its record id has no
\* parent, and otherwise is an attribute, under its class name, of the parent
\* record's class and is not in globals; either way it carries a SERIALIZER.
ClassesAttached ==
    ReturnedNormally =>
        \A i \in 1..Len(records) :
           LET id == records[i]
               a == record_id_to_adapter[id]
           IN /\ a.serializer
              /\ IF Parent(id) = ""
                 THEN /\ ClassName(id) \in globals
                      /\ a.parent_class = "None"
                 ELSE /\ ClassName(id) \notin globals
                      /\ Parent(id) \in DOMAIN record_id_to_adapter
                      /\ ClassName(id) \in record_id_to_adapter[Parent(id)].attrs
                      /\ a.parent_class = Parent(id)

\* C23 witness: a module with a nested record listed before its parent has
\* been initialized.
NestedAndTopLevelAttached ==
    /\ ReturnedNormally
    /\ records = <<"A.N", "A">>


\* The finalization state of the adapter registered under id changes in one
\* of the two ways finalize changes it, or not at all.
StepsForward(id) ==
    LET before == record_id_to_adapter[id].finalization_state
        after == record_id_to_adapter'[id].finalization_state
    IN \/ after = before
       \/ before = Pending /\ after = InProgress
       \/ before = InProgress /\ after = Done

\* C26: an adapter's finalization_state is always 0 (pending), 1 (in
\* progress) or 2 (done), and it only ever goes from 0 to 1 and from 1 to 2:
\* it never decreases and never goes from 0 straight to 2.
FinalizationStateMonotonic ==
    /\ [](\A id \in DOMAIN record_id_to_adapter :
             record_id_to_adapter[id].finalization_state \in {Pending, InProgress, Done})
    /\ [][\A id \in DOMAIN record_id_to_adapter :
             /\ id \in DOMAIN record_id_to_adapter'
             /\ record_id_to_adapter'[id].ordinal = record_id_to_adapter[id].ordinal
             /\ StepsForward(id)]_vars

\* C26 witness: the registry holds an adapter in each of the three states.
AllThreeStatesHeld ==
    \A s \in {Pending, InProgress, Done} :
       \E id \in DOMAIN record_id_to_adapter :
          record_id_to_adapter[id].finalization_state = s


\* The record adapters an adapter's value fields lead to, through arrays and
\* optionals, in n steps or fewer (resolve_type, lines 42-51).
RECURSIVE ReachableWithin(_, _)
ReachableWithin(ids, n) ==
    IF n = 0 THEN ids
    ELSE ReachableWithin(
            ids \cup UNION {RecordsNamed(schema[id]) \cap DOMAIN record_id_to_adapter : id \in ids},
            n - 1)

\* Every record adapter reachable from the adapter registered under id.
Reachable(id) == ReachableWithin({id}, Cardinality(RecordIds))

\* C27: when a finalize call made by init_module (a top-level call, not a
\* re-entrant one) on a record adapter returns normally, every record adapter
\* reachable from it through field types, arrays and optionals is done.
TopLevelFinalizeLeavesAllDone ==
    pc = "publish" =>
       \A id \in Reachable(module_adapters[idx]) :
          record_id_to_adapter[id].finalization_state = Done


\* The adapter registered under id is in progress and no active finalize
\* call is running its body.
Stuck(id) ==
    /\ id \in DOMAIN record_id_to_adapter
    /\ record_id_to_adapter[id].finalization_state = InProgress
    /\ \A k \in 1..Len(stack) :
          stack[k].adapter = TypeAdapter(<<>>, id) => stack[k].at = "entry"

\* A finalize call is resolving a field type that raises.
ResolveRaises ==
    /\ pc = "finalize"
    /\ stack # <<>>
    /\ IsRecordAdapter(Head(stack).adapter)
    /\ Head(stack).at = "resolve"
    /\ Head(stack).i <= Len(schema[Head(stack).adapter.rec])
    /\ resolve_type(schema[Head(stack).adapter.rec][Head(stack).i]).error # ""

\* C28: when resolving a type reference raises inside an adapter's finalize,
\* the adapter is left in progress; every later finalize call on it returns
\* at once without resolving a field, and it never reaches done.
FailedFinalizeLeavesInProgress ==
    /\ [][ResolveRaises =>
             /\ pc' = "done"
             /\ result' = "KeyError"
             /\ record_id_to_adapter' = record_id_to_adapter
             /\ \A id \in {Head(stack).adapter.rec} : Stuck(id)']_vars
    /\ [][\A id \in DOMAIN record_id_to_adapter : Stuck(id) => Stuck(id)']_vars
    /\ [][(EntersInState(InProgress) /\ Stuck(Head(stack).adapter.rec)) =>
             /\ stack' = Tail(stack)
             /\ record_id_to_adapter' = record_id_to_adapter
             /\ array_adapters' = array_adapters
             /\ optional_adapters' = optional_adapters]_vars

\* C28 witness: a later init_module call makes a finalize call on an adapter
\* that the KeyError of an earlier call left in progress.
FinalizeCalledOnStuck ==
    /\ EntersInState(InProgress)
    /\ Stuck(Head(stack).adapter.rec)


\* C29: when init_module fails on a duplicate record id at position k of the
\* records tuple, the adapters of the records before it are in the registry
\* and stay there, no adapter of the call has been finalized (each is still
\* pending), and nothing has been written to globals.
DuplicateLeavesEarlierRegistered ==
    /\ [](pc = "done" /\ result = "AssertionError" =>
            /\ missing = records[idx]
            /\ globals = {}
            /\ Len(module_adapters) = idx - 1
            /\ \A i \in 1..(idx - 1) :
                 /\ module_adapters[i] = records[i]
                 /\ records[i] \in DOMAIN record_id_to_adapter
                 /\ record_id_to_adapter[records[i]].finalization_state = Pending
                 /\ record_id_to_adapter[records[i]].started = 0
                 /\ ~record_id_to_adapter[records[i]].serializer)
    /\ [][\A id \in DOMAIN record_id_to_adapter : id \in DOMAIN record_id_to_adapter']_vars

\* C29 witness: the call failed on its second record, whose id an earlier
\* call had registered, after registering its first.
DuplicateAfterRegistering ==
    /\ pc = "done"
    /\ result = "AssertionError"
    /\ idx = 2
    /\ records[1] # records[2]
    /\ records[1] \in DOMAIN record_id_to_adapter


(***************************************************************************)
(* Part VIII: the primitive adapters (soia/_impl/primitives.py) and the    *)
(* optional adapter: specification SpecPrimitives.  The calls use the      *)
(* variables of the codec.                                                 *)
(***************************************************************************)

\* Lines 145-156 without the saturation: every unsafe integer is written out.
_int64_to_json_Unsaturated(i) ==
    IF Less(i, IntLiteral(TRUE, <<9,0,0,7,1,9,9,2,5,4,7,4,0,9,9,1>>))
    THEN JStr(str(i))
    ELSE IF LessEq(i, IntLiteral(FALSE, <<9,0,0,7,1,9,9,2,5,4,7,4,0,9,9,1>>))
    THEN JInt(i)
    ELSE JStr(str(i))

\* primitives.py lines 145-156
_int64_to_json(i) ==
    IF Less(i, IntLiteral(TRUE, <<9,0,0,7,1,9,9,2,5,4,7,4,0,9,9,1>>))
    THEN IF LessEq(i, IntLiteral(TRUE, <<9,2,2,3,3,7,2,0,3,6,8,5,4,7,7,5,8,0,8>>))
         THEN JStr(Text(TRUE, <<9,2,2,3,3,7,2,0,3,6,8,5,4,7,7,5,8,0,8>>))
         ELSE JStr(str(i))
    ELSE IF LessEq(i, IntLiteral(FALSE, <<9,0,0,7,1,9,9,2,5,4,7,4,0,9,9,1>>))
    THEN JInt(i)
    ELSE IF Less(i, IntLiteral(FALSE, <<9,2,2,3,3,7,2,0,3,6,8,5,4,7,7,5,8,0,7>>))
    THEN JStr(str(i))
    ELSE JStr(Text(FALSE, <<9,2,2,3,3,7,2,0,3,6,8,5,4,7,7,5,8,0,7>>))

\* primitives.py lines 190-198
_uint64_to_json(i) ==
    IF LessEq(i, Num(0)) THEN JInt(Num(0))
    ELSE IF LessEq(i, IntLiteral(FALSE, <<9,0,0,7,1,9,9,2,5,4,7,4,0,9,9,1>>))
    THEN JInt(i)
    ELSE IF Less(i, IntLiteral(FALSE, <<1,8,4,4,6,7,4,4,0,7,3,7,0,9,5,5,1,6,1,5>>))
    THEN JStr(str(i))
    ELSE JStr(Text(FALSE, <<1,8,4,4,6,7,4,4,0,7,3,7,0,9,5,5,1,6,1,5>>))

\* The dense or readable JSON of a value of an int64 or uint64 field
\* (to_json_expr, lines 161-162 and 203-206).
int_to_json(type, i) ==
    IF type = "int64" THEN _int64_to_json(i) ELSE _uint64_to_json(i)

\* The integers to_json is given: around 0 and around the limits of the
\* safe integers, of int64 and of uint64, of both signs.
JsonSamples ==
    LET around == {Add(a, Num(d)) : a \in {Num(0), Pow2(53), Pow2(63), Pow2(64)},
                                    d \in (0 - MaxDelta)..MaxDelta}
    IN around \cup {Neg(m) : m \in around}

\* serializer.to_json(i) of the int64 or uint64 serializer.
IntToJson ==
    /\ c_pc = "idle"
    /\ \E type \in {"int64", "uint64"}, i \in JsonSamples :
         /\ c_target' = type
         /\ c_in' = i
         /\ c_out' = int_to_json(type, i)
    /\ c_op' = "to_json"
    /\ c_stream' = <<>>
    /\ c_pos' = 0
    /\ c_err' = ""
    /\ c_pc' = "read"
    /\ UNCHANGED nonCodecVars

PrimitiveTypes ==
    {"bool", "int32", "int64", "uint64", "float32", "float64", "timestamp",
     "string", "bytes"}

\* default_expr of the primitive adapters (primitives.py lines 40, 91, 249,
\* 327, 395, 448): False, 0, 0.0, Timestamp.EPOCH, "" and b"".
default_expr(type) ==
    CASE type = "bool" -> Bool(FALSE)
      [] type \in {"int32", "int64", "uint64"} -> Num(0)
      [] type \in {"float32", "float64"} -> FloatOfInt(Num(0))
      [] type = "timestamp" -> Timestamp(Num(0))
      [] type = "string" -> Str(<<>>)
      [] type = "bytes" -> Bytes(<<>>)

\* _TimestampAdapter.decode, primitives.py lines 371-375
decode_timestamp(stream, position) ==
    LET r == decode_int64(stream, position)
    IN IF r.error # "" THEN r
       ELSE Decoded(Timestamp(_clamp_unix_millis(r.value)), r.position)

\* _StringAdapter.decode, primitives.py lines 424-435: every tag other than
\* 242 is taken for 243.
decode_string(stream, position) ==
    LET wire == read(stream, position, 1)[1]
        length == decode_int64(stream, position + 1)
    IN IF wire = 242 THEN Decoded(Str(<<>>), position + 1)
       ELSE IF length.error # "" THEN length
       ELSE Decoded(Str(read(stream, length.position, IntOf(length.value))),
                    length.position + IntOf(length.value))

\* _BytesAdapter.decode, primitives.py lines 487-497
decode_bytes(stream, position) ==
    LET wire == read_wire(stream, position)
        length == decode_int64(stream, position + 1)
    IN IF wire \in {0, 244} THEN Decoded(Bytes(<<>>), position + 1)
       ELSE IF length.error # "" THEN length
       ELSE Decoded(Bytes(read(stream, length.position, IntOf(length.value))),
                    length.position + IntOf(length.value))

\* The decode method of the adapter of a primitive type (primitives.py lines
\* 81, 142, 187, 237, 270 for the numbers).
decode(type, stream, position) ==
    CASE type \in {"bool", "int32", "int64", "uint64"} ->
            decode_number(type, stream, position)
      [] type \in {"float32", "float64"} -> decode_number("float", stream, position)
      [] type = "timestamp" -> decode_timestamp(stream, position)
      [] type = "string" -> decode_string(stream, position)
      [] type = "bytes" -> decode_bytes(stream, position)

\* What follows the zero tag in the stream: the default of the next field,
\* a two-letter string of a next field, or the token of an empty string.
AfterZeroTag == {<<0>>, <<2, 104, 105>>, <<242>>}

\* A stream is positioned at the zero tag (the token a struct writes for a
\* field that holds its default), which more of the struct follows.
WriteZeroTag ==
    /\ c_pc = "idle"
    /\ \E type \in PrimitiveTypes, lead \in {<<>>, <<250>>}, rest \in AfterZeroTag :
         /\ c_target' = type
         /\ c_in' = lead
         /\ c_stream' = lead \o <<0>> \o rest
         /\ c_pos' = Len(lead)
    /\ c_op' = "zero"
    /\ c_pc' = "written"
    /\ UNCHANGED <<c_out, c_err, nonCodecVars>>

\* adapter.decode(stream) of the adapter of a primitive type.
DecodePrimitive ==
    /\ c_pc = "written"
    /\ c_op = "zero"
    /\ \E r \in {decode(c_target, c_stream, c_pos)} :
          /\ c_out' = r.value
          /\ c_pos' = r.position
          /\ c_err' = r.error
    /\ c_pc' = "read"
    /\ UNCHANGED <<c_op, c_in, c_target, c_stream, nonCodecVars>>

\* An Optional(T) value: absent (None), or a value of T.
Absent_ == <<>>
Present(value) == <<value>>

\* The optional adapter's encode_binary: the zero tag for absent, and the
\* inner adapter's encoding of a value.
encode_optional(type, value) ==
    IF value = Absent_ THEN append(<<>>, Num(0)) ELSE encode(type, value[1])

\* The optional adapter's decode_binary: reading the zero tag yields absent,
\* any other tag is decoded by the inner adapter.
decode_optional(type, stream, position) ==
    IF read_wire(stream, position) = 0 THEN Decoded(Absent_, position + 1)
    ELSE [decode(type, stream, position) EXCEPT !.value = Present(@)]

\* Values of the primitive types: the default of each and others.
ValuesOf(type) ==
    CASE type = "bool" -> {Bool(FALSE), Bool(TRUE)}
      [] type \in {"int32", "int64"} -> {Num(0), Num(1), Num(300), Num(-1)}
      [] type = "uint64" -> {Num(0), Num(1), Num(300)}
      [] type = "float32" -> {FloatOfInt(Num(0)), FloatOfBytes("<f", <<0, 0, 192, 63>>)}
      [] type = "float64" ->
            {FloatOfInt(Num(0)), FloatOfBytes("<d", <<0, 0, 0, 0, 0, 0, 248, 63>>)}
      [] type = "timestamp" -> {Timestamp(Num(0)), Timestamp(Num(1000))}
      [] type = "string" -> {Str(<<>>), Str(<<104, 105>>)}
      [] type = "bytes" -> {Bytes(<<>>), Bytes(<<0, 1>>)}

\* encode of the adapter of Optional(type), on an empty buffer.
EncodeOptional ==
    /\ c_pc = "idle"
    /\ \E type \in PrimitiveTypes :
         \E value \in {Absent_} \cup {Present(v) : v \in ValuesOf(type)} :
            \E written \in {encode_optional(type, value)} :
                /\ c_target' = type
                /\ c_in' = value
                /\ c_stream' = written.buffer \o Following
                /\ c_err' = written.error
    /\ c_op' = "optional"
    /\ c_pos' = 0
    /\ c_pc' = "written"
    /\ UNCHANGED <<c_out, nonCodecVars>>

\* decode of the adapter of Optional(type), on the bytes written.
DecodeOptional ==
    /\ c_pc = "written"
    /\ c_op = "optional"
    /\ c_err = ""
    /\ \E r \in {decode_optional(c_target, c_stream, c_pos)} :
          /\ c_out' = r.value
          /\ c_pos' = r.position
          /\ c_err' = r.error
    /\ c_pc' = "read"
    /\ UNCHANGED <<c_op, c_in, c_target, c_stream, nonCodecVars>>

NextPrimitives ==
    \/ IntToJson
    \/ WriteZeroTag
    \/ DecodePrimitive
    \/ EncodeOptional
    \/ DecodeOptional

SpecPrimitives == InitCodec /\ [][NextPrimitives]_vars

(***************************************************************************)
(* Part VIII: properties                                                   *)
(***************************************************************************)

\* The largest integer JavaScript holds exactly: 2**53 - 1.
MaxSafeInteger == Sub(Pow2(53), Num(1))

\* The JSON is the decimal string of the integer n.
DecimalStringOf(json, n) ==
    /\ json.t = "str"
    /\ json.s = Text(n.neg, json.s.digits)
    /\ json.s.digits # <<>>
    /\ Head(json.s.digits) = 0 => json.s.digits = <<0>>
    /\ \A k \in 1..Len(json.s.digits) : json.s.digits[k] \in 0..9
    /\ IntLiteral(json.s.neg, json.s.digits) = n

\* The JSON is the integer n.
IntegerOf(json, n) == json.t = "int" /\ json.n = n

\* C25: the JSON of an int64 value i is the integer i when
\* -(2^53-1) <= i <= 2^53-1 and otherwise the decimal string of i saturated
\* to [-2^63, 2^63-1]; the JSON of a uint64 value is the integer when
\* 0 <= i <= 2^53-1, 0 for a negative input, and otherwise the decimal string
\* of i saturated to 2^64-1.
Int64JsonSafeOrString ==
    (c_pc = "read" /\ c_op = "to_json") =>
       IF c_target = "int64"
       THEN IF LessEq(Neg(MaxSafeInteger), c_in) /\ LessEq(c_in, MaxSafeInteger)
            THEN IntegerOf(c_out, c_in)
            ELSE DecimalStringOf(c_out, clamp("int64", c_in))
       ELSE IF c_in.neg
            THEN IntegerOf(c_out, Num(0))
            ELSE IF LessEq(c_in, MaxSafeInteger)
            THEN IntegerOf(c_out, c_in)
            ELSE DecimalStringOf(c_out, clamp("uint64", c_in))

\* C25 witness: an int64 field holds an integer below -2^63, and its JSON is
\* a string.
Int64BelowMinimumEncoded ==
    /\ c_pc = "read"
    /\ c_op = "to_json"
    /\ c_target = "int64"
    /\ Less(c_in, Neg(Pow2(63)))
    /\ c_out.t = "str"


\* C30: every primitive decoder (bool, int32, int64, uint64, float,
\* timestamp, string, bytes) applied to a stream whose next byte is the zero
\* tag returns the default of its type and advances the position by exactly
\* one byte.
ZeroTagDecodesToDefault ==
    (c_pc = "read" /\ c_op = "zero") =>
       /\ c_err = ""
       /\ c_out = default_expr(c_target)
       /\ c_pos = Len(c_in) + 1


\* C24: for every Optional(T) value v, absent or present, a present value
\* equal to T's default included, decoding the binary encoding of v gives v
\* back.
OptionalBinaryRoundTrip ==
    (c_pc = "read" /\ c_op = "optional") =>
       /\ c_err = ""
       /\ c_out = c_in
       /\ c_pos = Len(c_stream) - Len(Following)


(***************************************************************************)
(* Part IX: structs and their dense JSON (soialib/impl/primitives.py for   *)
(* the fields; the struct adapter as section 4.7 describes it)             *)
(***************************************************************************)

\* A float, held by its value in tenths: JFloat(15) is 1.5.
JFloat(tenths) == Value("float", tenths, "", <<>>, <<>>)

\* Python's round of a float: the nearest integer, a half to the even one.
round(tenths) ==
    LET q == tenths \div 10
        r == tenths % 10
    IN IF r < 5 THEN q
       ELSE IF r > 5 THEN q + 1
       ELSE IF q % 2 = 0 THEN q ELSE q + 1

\* _AbstractIntAdapter.default_expr (lines 51-52): "0"
_AbstractIntAdapter_default_expr == JInt(0)

\* _AbstractIntAdapter.to_frozen_expr (lines 54-57): (arg | 0), on an int or
\* a bool; on a float the operator | raises TypeError.
_AbstractIntAdapter_to_frozen_expr(arg) == JInt(arg.n)

\* _AbstractIntAdapter.is_not_default_expr (lines 59-60): the truth value of
\* the argument.
_AbstractIntAdapter_is_not_default_expr(arg) == arg.n # 0

\* _AbstractIntAdapter.to_json_expr (lines 62-63): the value itself.
_AbstractIntAdapter_to_json_expr(in) == in

\* _AbstractIntAdapter.from_json_expr (lines 65-78): the JSON itself when
\* its class is int, and round(json) of a float or a bool.
_AbstractIntAdapter_from_json_expr(json) ==
    IF json.t = "int" THEN json
    ELSE IF json.t = "float" THEN JInt(round(json.n))
    ELSE JInt(json.n)

\* _AbstractFloatAdapter.default_expr (lines 104-105): "0.0"
_AbstractFloatAdapter_default_expr == JFloat(0)

\* arg + 0.0 : a float stays, an int or a bool becomes the float of its value.
PlusZeroFloat(arg) ==
    IF arg.t = "float" THEN arg ELSE JFloat(10 * arg.n)

\* _AbstractFloatAdapter.to_frozen_expr (lines 107-108): (arg + 0.0)
_AbstractFloatAdapter_to_frozen_expr(arg) == PlusZeroFloat(arg)

\* A float adapter that reports every value as not default.
_AbstractFloatAdapter_is_not_default_expr_Always(arg) == TRUE

\* _AbstractFloatAdapter.is_not_default_expr (lines 110-111): the truth
\* value of the argument.
_AbstractFloatAdapter_is_not_default_expr(arg) == arg.n # 0

\* _AbstractFloatAdapter.to_json_expr (lines 113-114): the value itself.
_AbstractFloatAdapter_to_json_expr(in) == in

\* _AbstractFloatAdapter.from_json_expr (lines 116-117): (json + 0.0)
_AbstractFloatAdapter_from_json_expr(json) == PlusZeroFloat(json)

\* The structs Point and Foobar of the test module.
Point ==
    Struct("Point", <<Field("x", 0, "float32"), Field("y", 2, "float32")>>, {1})

Foobar ==
    Struct("Foobar",
           <<Field("a", 1, "int32"), Field("b", 3, "int32"),
             Field("point", 4, "Point")>>,
           {0, 2})

Structs == {Point, Foobar}

IntTypes == {"int32", "int64", "uint64"}
FloatTypes == {"float32", "float64"}

\* The struct a record id resolves to.
StructOf(id) == CHOOSE spec \in Structs : spec.id = id

\* The fields of the struct, as a set, and the one of a slot.
FieldsOf(spec) == {spec.fields[i] : i \in DOMAIN spec.fields}
FieldNames(spec) == {f.name : f \in FieldsOf(spec)}
FieldNamed(spec, name) == CHOOSE f \in FieldsOf(spec) : f.name = name
IsLive(spec, number) == \E f \in FieldsOf(spec) : f.number = number
slot_to_field(spec, number) == CHOOSE f \in FieldsOf(spec) : f.number = number

\* The length of slot_to_field: one more than the highest number, live or
\* removed.
slot_count(spec) ==
    LET numbers == {f.number : f \in FieldsOf(spec)} \cup spec.removed_numbers
    IN IF numbers = {} THEN 0
       ELSE 1 + CHOOSE n \in numbers : \A m \in numbers : m <= n

RECURSIVE default_of(_)
RECURSIVE DEFAULT(_)
RECURSIVE is_not_default(_, _)
RECURSIVE highest_non_default(_, _)
RECURSIVE type_to_json(_, _)
RECURSIVE to_dense_json(_, _)
RECURSIVE type_from_json(_, _)
RECURSIVE struct_from_json(_, _)

\* The default of a field of the type.
default_of(type) ==
    IF type \in IntTypes THEN _AbstractIntAdapter_default_expr
    ELSE IF type \in FloatTypes THEN _AbstractFloatAdapter_default_expr
    ELSE DEFAULT(StructOf(type))

\* The DEFAULT of the frozen class: every field at its default, no tail.
DEFAULT(spec) ==
    Frozen(spec,
           [name \in FieldNames(spec) |-> default_of(FieldNamed(spec, name).type)],
           <<>>)

\* is_not_default of the adapter of the type, on a frozen value; a struct
\* is not default when its dense form holds any slot.
is_not_default(type, value) ==
    IF type \in IntTypes THEN _AbstractIntAdapter_is_not_default_expr(value)
    ELSE IF type \in FloatTypes
    THEN _AbstractFloatAdapter_is_not_default_expr(value)
    ELSE highest_non_default(StructOf(type), value) >= 0

\* The largest slot whose live field is not default, or that the
\* unrecognized tail populates; -1 when there is none.
highest_non_default(spec, value) ==
    IF Len(value.unrecognized) > 0
    THEN slot_count(spec) + Len(value.unrecognized) - 1
    ELSE LET numbers == {f.number : f \in
                            {g \in FieldsOf(spec) :
                                is_not_default(g.type, value.fields[g.name])}}
         IN IF numbers = {} THEN -1
            ELSE CHOOSE n \in numbers : \A m \in numbers : m <= n

\* to_json of the adapter of the type, dense.
type_to_json(type, value) ==
    IF type \in IntTypes THEN _AbstractIntAdapter_to_json_expr(value)
    ELSE IF type \in FloatTypes THEN _AbstractFloatAdapter_to_json_expr(value)
    ELSE to_dense_json(StructOf(type), value)

\* JSON encode, dense: a list of highest_non_default + 1 entries, one per
\* slot: the JSON of a live field, the integer 0 for a removed slot, and the
\* preserved JSON for the entries after slot_count.
to_dense_json(spec, value) ==
    LET entry(number) ==
            IF number >= slot_count(spec)
            THEN value.unrecognized[number - slot_count(spec) + 1]
            ELSE IF IsLive(spec, number)
            THEN type_to_json(slot_to_field(spec, number).type,
                              value.fields[slot_to_field(spec, number).name])
            ELSE JInt(0)
    IN JList([i \in 1..(highest_non_default(spec, value) + 1) |-> entry(i - 1)])

\* from_json of the adapter of the type.
type_from_json(type, json) ==
    IF type \in IntTypes THEN _AbstractIntAdapter_from_json_expr(json)
    ELSE IF type \in FloatTypes THEN _AbstractFloatAdapter_from_json_expr(json)
    ELSE struct_from_json(StructOf(type), json)

\* JSON decode of a struct: DEFAULT for the integer 0; for a list, each live
\* field from the entry of its slot or its default when the list is shorter,
\* and the entries beyond slot_count as the unrecognized tail.
struct_from_json(spec, json) ==
    IF json.t # "list" THEN DEFAULT(spec)
    ELSE Frozen(spec,
                [name \in FieldNames(spec) |->
                    LET f == FieldNamed(spec, name)
                    IN IF f.number < Len(json.items)
                       THEN type_from_json(f.type, json.items[f.number + 1])
                       ELSE default_of(f.type)],
                IF Len(json.items) > slot_count(spec)
                THEN SubSeq(json.items, slot_count(spec) + 1, Len(json.items))
                ELSE <<>>)

\* to_frozen of the adapter of the type: a frozen struct is returned as is.
type_to_frozen(type, arg) ==
    IF type \in IntTypes THEN _AbstractIntAdapter_to_frozen_expr(arg)
    ELSE IF type \in FloatTypes THEN _AbstractFloatAdapter_to_frozen_expr(arg)
    ELSE arg

\* The frozen constructor: every field by name, through the to_frozen of
\* its type; no unrecognized tail.
new(spec, args) ==
    Frozen(spec,
           [name \in FieldNames(spec) |->
               type_to_frozen(FieldNamed(spec, name).type, args[name])],
           <<>>)

\* A to_mutable that leaves the unrecognized tail behind.
to_mutable_WithoutTail(value) ==
    [value EXCEPT !.cls = "mutable", !.unrecognized = <<>>]

\* to_mutable of a frozen value: a copy of the fields, and the same
\* unrecognized tail.
to_mutable(value) == [value EXCEPT !.cls = "mutable"]

\* to_frozen of a mutable value: every field through the to_frozen of its
\* type, and the same unrecognized tail; a frozen value is returned as is.
to_frozen(spec, value) ==
    IF value.cls = "frozen" THEN value
    ELSE Frozen(spec,
                [name \in FieldNames(spec) |->
                    type_to_frozen(FieldNamed(spec, name).type,
                                   value.fields[name])],
                value.unrecognized)


\* How many entries beyond slot_count a dense list handed to from_json holds
\* at most.
MaxSurplus == 2

\* Arguments of the constructors: ints and floats for a float field, ints
\* for an int field, and for a field of type Point its DEFAULT, a point off
\* the origin, and a point decoded with an unrecognized tail.
ArgsOfType(type) ==
    IF type \in IntTypes THEN {JInt(0), JInt(3)}
    ELSE IF type \in FloatTypes THEN {JFloat(0), JFloat(15), JFloat(25), JInt(2)}
    ELSE {DEFAULT(Point),
          new(Point, [x |-> JFloat(20), y |-> JFloat(0)]),
          struct_from_json(Point,
                           JList(<<JInt(0), JInt(0), JInt(0), JBool(TRUE)>>))}

ArgsOf(spec) ==
    IF spec = Point
    THEN {[x |-> x, y |-> y] : x, y \in ArgsOfType("float32")}
    ELSE {[a |-> a, b |-> b, point |-> point] :
             a \in ArgsOfType("int32"), b \in ArgsOfType("int32"),
             point \in ArgsOfType("Point")}

\* What a dense list may hold at a slot: anything at a removed slot, numbers
\* of either class at a number field, 0 or a dense list at a Point field,
\* and other JSON beyond slot_count.
EntriesAt(spec, number) ==
    IF number >= slot_count(spec) THEN {JBool(TRUE), JInt(7)}
    ELSE IF ~IsLive(spec, number) THEN {JInt(0), JInt(1)}
    ELSE IF slot_to_field(spec, number).type \in IntTypes
    THEN {JInt(0), JInt(3), JFloat(31)}
    ELSE IF slot_to_field(spec, number).type \in FloatTypes
    THEN {JInt(0), JInt(1), JFloat(15), JFloat(25)}
    ELSE {JInt(0), JList(<<JFloat(20)>>),
          JList(<<JInt(0), JInt(0), JInt(0), JBool(TRUE)>>)}

RECURSIVE DenseLists(_, _)
\* The dense lists of a length.
DenseLists(spec, length) ==
    IF length = 0 THEN {<<>>}
    ELSE {Append(items, entry) :
             items \in DenseLists(spec, length - 1),
             entry \in EntriesAt(spec, length - 1)}

\* cls(**args): the frozen constructor.
StructNew ==
    /\ s_pc = "idle"
    /\ \E spec \in Structs :
          \E args \in ArgsOf(spec) :
             /\ s_struct' = spec
             /\ s_value' = new(spec, args)
    /\ s_op' = "new"
    /\ s_pc' = "made"
    /\ UNCHANGED <<s_given, s_copied, s_json, nonStructVars>>

\* cls.SERIALIZER.from_json(json) on a dense list.
StructFromJson ==
    /\ s_pc = "idle"
    /\ \E spec \in Structs :
          \E length \in 0..(slot_count(spec) + MaxSurplus) :
             \E items \in DenseLists(spec, length) :
                /\ s_struct' = spec
                /\ s_given' = JList(items)
                /\ s_value' = struct_from_json(spec, JList(items))
    /\ s_op' = "from_json"
    /\ s_pc' = "made"
    /\ UNCHANGED <<s_copied, s_json, nonStructVars>>

\* value.to_mutable().to_frozen()
StructToMutableToFrozen ==
    /\ s_pc = "made"
    /\ ~s_copied
    /\ s_value' = to_frozen(s_struct, to_mutable(s_value))
    /\ s_copied' = TRUE
    /\ UNCHANGED <<s_pc, s_op, s_struct, s_given, s_json, nonStructVars>>

\* cls.SERIALIZER.to_json(value)
StructToJson ==
    /\ s_pc = "made"
    /\ s_json' = to_dense_json(s_struct, s_value)
    /\ s_pc' = "encoded"
    /\ UNCHANGED <<s_op, s_struct, s_given, s_value, s_copied, nonStructVars>>

NextStructs ==
    \/ StructNew
    \/ StructFromJson
    \/ StructToMutableToFrozen
    \/ StructToJson

InitStructs ==
    /\ schema = [id \in RecordIds |-> <<>>]
    /\ RegistryEmpty
    /\ CodecIdle
    /\ KeyedIdle
    /\ ArraysIdle
    /\ CachesIdle
    /\ FrozenIdle
    /\ EnumsIdle
    /\ StructsIdle

SpecStructs == InitStructs /\ [][NextStructs]_vars

\* The highest slot that holds a live field whose value differs from the
\* default of its type, -1 when every field is at its default.
HighestNonDefaultSlot(spec, value) ==
    LET numbers == {f.number : f \in
                       {g \in FieldsOf(spec) :
                           value.fields[g.name] # default_of(g.type)}}
    IN IF numbers = {} THEN -1
       ELSE CHOOSE n \in numbers : \A m \in numbers : m <= n

\* C21: the dense JSON of a frozen struct without unrecognized tail is a
\* list of exactly h + 1 entries, h being the highest slot that holds a live
\* field not at its default (the empty list when there is none), and every
\* removed slot below h holds the integer 0.
DenseJsonTrimmed ==
    (s_pc = "encoded" /\ Len(s_value.unrecognized) = 0) =>
        /\ s_json.t = "list"
        /\ Len(s_json.items) = HighestNonDefaultSlot(s_struct, s_value) + 1
        /\ \A number \in s_struct.removed_numbers :
              number < Len(s_json.items) => s_json.items[number + 1] = JInt(0)

\* Foobar(b=3, point=Point.DEFAULT) was encoded as [0, 0, 0, 3]: removed
\* slots below the highest one, and a trailing default that is left out.
FoobarEncodedTrimmed ==
    /\ s_pc = "encoded"
    /\ s_op = "new"
    /\ s_struct = Foobar
    /\ Len(s_value.unrecognized) = 0
    /\ s_value.fields.point = DEFAULT(Point)
    /\ s_json = JList(<<JInt(0), JInt(0), JInt(0), JInt(3)>>)

\* C22: the dense JSON of a value decoded from a dense list with entries
\* beyond slot_count is the known slots, a removed slot as the integer 0
\* and a live slot as the JSON of its field, followed by the surplus entries
\* of the list in their order; also after to_mutable().to_frozen().
DenseSurplusKept ==
    (/\ s_pc = "encoded"
     /\ s_op = "from_json"
     /\ Len(s_given.items) > slot_count(s_struct)) =>
        s_json.items =
            [i \in 1..slot_count(s_struct) |->
                IF IsLive(s_struct, i - 1)
                THEN type_to_json(slot_to_field(s_struct, i - 1).type,
                                  s_value.fields[slot_to_field(s_struct, i - 1).name])
                ELSE JInt(0)]
            \o SubSeq(s_given.items, slot_count(s_struct) + 1, Len(s_given.items))

\* [1.5, 1, 2.5, true] was decoded as a Point, taken through
\* to_mutable().to_frozen(), and encoded as [1.5, 0, 2.5, true].
PointSurplusReencoded ==
    /\ s_pc = "encoded"
    /\ s_copied
    /\ s_struct = Point
    /\ s_given = JList(<<JFloat(15), JInt(1), JFloat(25), JBool(TRUE)>>)
    /\ s_json = JList(<<JFloat(15), JInt(0), JFloat(25), JBool(TRUE)>>)

====
